---- MODULE Spec2Model ----
(***************************************************************************)
(* Model of the meal-plan parser and formatter of the Chef agent           *)
(* (src/agents/chef.py).  Texts are TLA+ strings, handled character by     *)
(* character; every regular expression of the parser is an operator that   *)
(* returns the positions Python's re module would match (positions are     *)
(* 1-based, 0 means "no match").  The bullet U+2022 of the source's        *)
(* character class [-(U+2022)] is written "*" here, because a TLA+ string  *)
(* is ASCII; no input text of the model uses "*" for anything else.        *)
(***************************************************************************)
EXTENDS Integers, Sequences, FiniteSets, TLC

VARIABLES
    pc,                 \* position of the call under study
    template_plan,      \* the plan a reply was rendered from, if it was
    response_text,      \* argument of parse_meal_plan_response
    extracted_recipes,  \* structured_plan["recipes"] when line 463 is reached
    structured_plan,    \* the plan returned by the parser / given to the formatter
    message_parts,      \* the list returned by format_structured_meal_plan
    user_data_store,    \* bot/utils.py: user id -> user data
    tasks,              \* the handler coroutines in flight or ended, by slot
    events,             \* number of updates dispatched so far
    args,               \* context.args of a /mealplan command
    current_month,      \* datetime.now().month
    servings,           \* the local of meal_plan_command, handlers.py line 167
    meal_plan_prompt    \* the lines of the prompt built at handlers.py line 182

vars == <<pc, template_plan, response_text, extracted_recipes, structured_plan,
          message_parts, user_data_store, tasks, events,
          args, current_month, servings, meal_plan_prompt>>

(***************************************************************************)
(* Character classes of Python's re and of str.strip()                     *)
(***************************************************************************)
WS == {" ", "\t", "\n", "\r", "\f"}

Digits == {"0", "1", "2", "3", "4", "5", "6", "7", "8", "9"}

WordChars ==
    {"a", "b", "c", "d", "e", "f", "g", "h", "i", "j", "k", "l", "m",
     "n", "o", "p", "q", "r", "s", "t", "u", "v", "w", "x", "y", "z",
     "A", "B", "C", "D", "E", "F", "G", "H", "I", "J", "K", "L", "M",
     "N", "O", "P", "Q", "R", "S", "T", "U", "V", "W", "X", "Y", "Z"}
        \cup Digits \cup {"_"}

BulletChars == {"-", "*"}

\* the character of s at position i, "" outside the string
Ch(s, i) == IF i >= 1 /\ i <= Len(s) THEN SubSeq(s, i, i) ELSE ""

\* s[i-1:] of Python (i is 1-based)
From(s, i) == IF i > Len(s) THEN "" ELSE SubSeq(s, i, Len(s))

\* the literal lit occurs in s at position i
At(s, i, lit) ==
    /\ i >= 1
    /\ i + Len(lit) - 1 <= Len(s)
    /\ SubSeq(s, i, i + Len(lit) - 1) = lit

\* the least j in lo..hi with P(j), 0 if there is none: a scan from lo upwards
First(lo, hi, P(_)) ==
    IF \E j \in lo..hi : P(j)
    THEN CHOOSE j \in lo..hi : P(j) /\ \A k \in lo..(j - 1) : ~P(k)
    ELSE 0

\* F applied to v: the value v is computed once and named by F's parameter,
\* as an assignment to a local variable does
Bind(v, F(_)) == F(v)

\* first position >= i whose character is not in S (Len(s)+1 at the end)
SkipIn(s, i, S) ==
    IF i > Len(s) THEN i
    ELSE First(i, Len(s) + 1, LAMBDA j : Ch(s, j) \notin S)

\* first position >= i that is a newline, or Len(s)+1: where a greedy ".+"
\* or ".*" without DOTALL stops
LineEnd(s, i) ==
    IF i > Len(s) THEN i
    ELSE First(i, Len(s) + 1, LAMBDA j : Ch(s, j) \in {"", "\n"})

\* last position <= i whose character is not in S (0 if none)
SkipBackIn(s, i, S) ==
    IF i < 1 THEN i
    ELSE CHOOSE j \in 0..i :
            Ch(s, j) \notin S /\ \A k \in (j + 1)..i : Ch(s, k) \in S

\* first position >= i where lit occurs, 0 if none
Find(s, lit, i) == First(i, Len(s) - Len(lit) + 1, LAMBDA j : At(s, j, lit))

\* str.strip()
Strip(s) ==
    Bind(SkipIn(s, 1, WS), LAMBDA a :
        IF a > Len(s) THEN "" ELSE SubSeq(s, a, SkipBackIn(s, Len(s), WS)))

DigitVal(c) ==
    CASE c = "0" -> 0 [] c = "1" -> 1 [] c = "2" -> 2 [] c = "3" -> 3
      [] c = "4" -> 4 [] c = "5" -> 5 [] c = "6" -> 6 [] c = "7" -> 7
      [] c = "8" -> 8 [] c = "9" -> 9

\* int(d) for a non-empty string of decimal digits
RECURSIVE IntOf(_)
IntOf(d) ==
    IF Len(d) = 1 THEN DigitVal(d)
    ELSE 10 * IntOf(SubSeq(d, 1, Len(d) - 1)) + DigitVal(Ch(d, Len(d)))

\* "\s+" followed by a token that needs one character other than a newline
\* (".+" or ".+?"): the position where that token starts when "\s+" begins at
\* q, after the backtracking of the greedy "\s+"; 0 if there is none.
RECURSIVE BackToDot(_, _, _)
BackToDot(s, c, lo) ==
    IF c < lo THEN 0
    ELSE IF c <= Len(s) /\ Ch(s, c) # "\n" THEN c
    ELSE BackToDot(s, c - 1, lo)

WsThenDot(s, q) ==
    Bind(SkipIn(s, q, WS), LAMBDA w :
        IF w = q THEN 0 ELSE BackToDot(s, w, q + 1))

\* "\w+day:" matched from position x on: the position after the colon, or 0.
\* The greedy "\w+" takes the whole run of word characters and gives back the
\* last three of them, which must be "day"; a colon must follow the run.
WordDayColon(s, x) ==
    Bind(SkipIn(s, x, WordChars), LAMBDA y :
        IF y - 3 >= x + 1 /\ At(s, y - 3, "day") /\ Ch(s, y) = ":"
        THEN y + 1 ELSE 0)

(***************************************************************************)
(* Section split, line 319: re.split(r'# \d+\.\s+', response_text)          *)
(***************************************************************************)
\* end (exclusive) of a match of '# \d+\.\s+' that starts at i, or 0
SectionHeaderEnd(s, i) ==
    IF ~At(s, i, "# ") THEN 0
    ELSE Bind(SkipIn(s, i + 2, Digits), LAMBDA d :
             IF d = i + 2 \/ Ch(s, d) # "." THEN 0
             ELSE Bind(SkipIn(s, d + 1, WS), LAMBDA w :
                      IF w = d + 1 THEN 0 ELSE w))

\* the pieces of s from start on, between the matches found from left to right
RECURSIVE SplitFrom(_, _)
SplitFrom(s, start) ==
    Bind(First(start, Len(s), LAMBDA j : SectionHeaderEnd(s, j) > 0), LAMBDA i :
        IF i = 0 THEN << From(s, start) >>
        ELSE << SubSeq(s, start, i - 1) >>
                 \o SplitFrom(s, SectionHeaderEnd(s, i)))

SplitSections(s) == SplitFrom(s, 1)

(***************************************************************************)
(* Fallback regions, lines 323-325                                         *)
(***************************************************************************)
\* the region from head to whichever of the later headers comes first, or
\* to the end of the text
RegionUntilNextHeader(s, head, stop) ==
    Bind(Find(s, head, 1), LAMBDA a :
        IF a = 0 THEN << FALSE, "" >>
        ELSE Bind(First(a + Len(head), Len(s),
                        LAMBDA j : At(s, j, "SHOPPING LIST")
                                      \/ At(s, j, "DETAILED RECIPES")),
                  LAMBDA b :
                      IF b = 0 THEN << TRUE, From(s, a) >>
                      ELSE << TRUE, SubSeq(s, a, b - 1) >>))

\* re.search(head + '.*?(?=' + stop + '|\Z)', s, re.DOTALL).group(0);
\* <<found, text>>
RegionUntil(s, head, stop) ==
    Bind(Find(s, head, 1), LAMBDA a :
        IF a = 0 THEN << FALSE, "" >>
        ELSE Bind(Find(s, stop, a + Len(head)), LAMBDA b :
                 IF b = 0 THEN << TRUE, From(s, a) >>
                 ELSE << TRUE, SubSeq(s, a, b - 1) >>))

\* re.search(head + '.*', s, re.DOTALL).group(0)
RegionToEnd(s, head) ==
    Bind(Find(s, head, 1), LAMBDA a :
        IF a = 0 THEN << FALSE, "" >> ELSE << TRUE, From(s, a) >>)

(***************************************************************************)
(* Summary lines, lines 330-331 and 389-390:                               *)
(*   re.findall(r'(\w+day):\s+(.+)', summary_text)                         *)
(***************************************************************************)
\* a match starting at p: <<end, day, meal>> or <<0>>
DayMealAt(s, p) ==
    Bind(WordDayColon(s, p), LAMBDA q :
        IF q = 0 THEN << 0 >>
        ELSE Bind(WsThenDot(s, q), LAMBDA c :
                 IF c = 0 THEN << 0 >>
                 ELSE Bind(LineEnd(s, c), LAMBDA t :
                          << t, SubSeq(s, p, q - 2),
                             Strip(SubSeq(s, c, t - 1)) >>)))

\* the matches from p on, left to right, each search resuming where the
\* previous match ended
RECURSIVE DayMeals(_, _)
DayMeals(s, p) ==
    Bind(First(p, Len(s), LAMBDA j : DayMealAt(s, j)[1] # 0), LAMBDA n :
        IF n = 0 THEN << >>
        ELSE Bind(DayMealAt(s, n), LAMBDA m :
                 << [day |-> m[2], meal |-> m[3]] >> \o DayMeals(s, m[1])))

ExtractSummary(summary_text) == DayMeals(summary_text, 1)

(***************************************************************************)
(* Shopping list, lines 336-339 (fallback) and 395-398 (structured).       *)
(*   fallback:   r'##\s+(.+?)\n((?:[-*]\s+.+\n)+)'    strict = TRUE         *)
(*   structured: r'##\s+(.+?)\n((?:[-*]\s+.+\n?)+)'   strict = FALSE        *)
(***************************************************************************)
\* '[-*]\s+.+\n' or '[-*]\s+.+\n?' with ".+" starting at c, c tried from the
\* end of the whitespace run downwards: end (exclusive) of the line, or 0
RECURSIVE BulletTry(_, _, _, _)
BulletTry(s, c, lo, strict) ==
    IF c < lo THEN 0
    ELSE IF c <= Len(s) /\ Ch(s, c) # "\n"
         THEN Bind(LineEnd(s, c), LAMBDA t :
                  IF Ch(s, t) = "\n" THEN t + 1
                  ELSE IF strict THEN BulletTry(s, c - 1, lo, strict)
                  ELSE t)
         ELSE BulletTry(s, c - 1, lo, strict)

BulletLineEnd(s, b, strict) ==
    IF Ch(s, b) \notin BulletChars THEN 0
    ELSE Bind(SkipIn(s, b + 1, WS), LAMBDA w :
             IF w = b + 1 THEN 0 ELSE BulletTry(s, w, b + 2, strict))

\* the greedy group (...)+ of bulleted lines from b on: its end, b if no line
RECURSIVE BulletsEnd(_, _, _)
BulletsEnd(s, b, strict) ==
    Bind(BulletLineEnd(s, b, strict), LAMBDA e :
        IF e = 0 THEN b ELSE BulletsEnd(s, e, strict))

\* the category text starts at c (tried downwards), reaches the end of its
\* line, and at least one bulleted line follows: <<end, c, newline>> or <<0>>
RECURSIVE CategoryTry(_, _, _, _)
CategoryTry(s, c, lo, strict) ==
    IF c < lo THEN << 0 >>
    ELSE IF c <= Len(s) /\ Ch(s, c) # "\n"
         THEN Bind(LineEnd(s, c + 1), LAMBDA e :
                  IF e > Len(s) THEN CategoryTry(s, c - 1, lo, strict)
                  ELSE Bind(BulletsEnd(s, e + 1, strict), LAMBDA z :
                           IF z > e + 1 THEN << z, c, e >>
                           ELSE CategoryTry(s, c - 1, lo, strict)))
         ELSE CategoryTry(s, c - 1, lo, strict)

CategoryAt(s, p, strict) ==
    IF ~At(s, p, "##") THEN << 0 >>
    ELSE Bind(SkipIn(s, p + 2, WS), LAMBDA w :
             IF w = p + 2 THEN << 0 >> ELSE CategoryTry(s, w, p + 3, strict))

\* re.findall(r'[-*]\s+(.+)', items_text), each item stripped
\* '[-*]\s+(.+)' at p: the position where group 1 starts, or 0
BulletItemAt(s, p) ==
    IF Ch(s, p) \in BulletChars THEN WsThenDot(s, p + 1) ELSE 0

RECURSIVE BulletItems(_, _)
BulletItems(s, p) ==
    Bind(First(p, Len(s), LAMBDA j : BulletItemAt(s, j) # 0), LAMBDA n :
        IF n = 0 THEN << >>
        ELSE Bind(BulletItemAt(s, n), LAMBDA c :
                 Bind(LineEnd(s, c), LAMBDA t :
                     << Strip(SubSeq(s, c, t - 1)) >> \o BulletItems(s, t))))

\* shopping_list[category] = items on an insertion-ordered dict, kept as a
\* sequence of [category, items]: an existing key keeps its place
DictSet(d, k, v) ==
    IF \E i \in 1..Len(d) : d[i].category = k
    THEN [i \in 1..Len(d) |->
            IF d[i].category = k THEN [category |-> k, items |-> v] ELSE d[i]]
    ELSE Append(d, [category |-> k, items |-> v])

RECURSIVE Categories(_, _, _, _)
Categories(s, p, strict, d) ==
    Bind(First(p, Len(s), LAMBDA j : CategoryAt(s, j, strict)[1] # 0), LAMBDA n :
        IF n = 0 THEN d
        ELSE Bind(CategoryAt(s, n, strict), LAMBDA m :
                 Categories(s, m[1], strict,
                     DictSet(d, Strip(SubSeq(s, m[2], m[3] - 1)),
                             BulletItems(SubSeq(s, m[3] + 1, m[1] - 1), 1)))))

ExtractShoppingList(shopping_text, strict) ==
    Categories(shopping_text, 1, strict, << >>)

(***************************************************************************)
(* Fields of one recipe block, lines 354-378 and 436-460                   *)
(***************************************************************************)
\* re.search(label + r'\s+(\d+)', s), with r'\s+minutes' after it when
\* minutes is TRUE: <<found, int of the digits>>
NumberAt(s, label, minutes, a) ==
    IF ~At(s, a, label) THEN << FALSE, 0 >>
    ELSE Bind(SkipIn(s, a + Len(label), WS), LAMBDA w :
             Bind(SkipIn(s, w, Digits), LAMBDA d :
                 IF /\ w > a + Len(label)
                    /\ d > w
                    /\ minutes => Bind(SkipIn(s, d, WS), LAMBDA m :
                                      m > d /\ At(s, m, "minutes"))
                 THEN << TRUE, IntOf(SubSeq(s, w, d - 1)) >>
                 ELSE << FALSE, 0 >>))

NumberAfter(s, label, minutes, i) ==
    Bind(First(i, Len(s), LAMBDA j : NumberAt(s, label, minutes, j)[1]), LAMBDA a :
        IF a = 0 THEN << FALSE, 0 >> ELSE NumberAt(s, label, minutes, a))

\* re.search(head + '(.*?)(?=' + stop + '|\Z)', s, re.DOTALL): <<found, group 1>>
CaptureUntil(s, head, stop) ==
    Bind(Find(s, head, 1), LAMBDA a :
        IF a = 0 THEN << FALSE, "" >>
        ELSE Bind(Find(s, stop, a + Len(head)), LAMBDA b :
                 IF b = 0 THEN << TRUE, From(s, a + Len(head)) >>
                 ELSE << TRUE, SubSeq(s, a + Len(head), b - 1) >>))

\* re.findall(r'\d+\.\s+(.+)', instructions_text), each step stripped
\* '\d+\.\s+(.+)' at p: the position where group 1 starts, or 0
NumberedItemAt(s, p) ==
    Bind(SkipIn(s, p, Digits), LAMBDA d :
        IF d > p /\ Ch(s, d) = "." THEN WsThenDot(s, d + 1) ELSE 0)

RECURSIVE NumberedItems(_, _)
NumberedItems(s, p) ==
    Bind(First(p, Len(s), LAMBDA j : NumberedItemAt(s, j) # 0), LAMBDA n :
        IF n = 0 THEN << >>
        ELSE Bind(NumberedItemAt(s, n), LAMBDA c :
                 Bind(LineEnd(s, c), LAMBDA t :
                     << Strip(SubSeq(s, c, t - 1)) >> \o NumberedItems(s, t))))

\* a dict as a function on its keys; d[k] = v
SetKey(d, k, v) == (k :> v) @@ d

\* "if match: recipe[key] = value", for match = <<found, value>>
SetIfFound(recipe, key, match) ==
    IF match[1] THEN SetKey(recipe, key, match[2]) ELSE recipe

\* lines 367-371 and 449-453: <<found, ingredients>>
IngredientsOf(recipe_block) ==
    Bind(CaptureUntil(recipe_block, "### Ingredients:", "### Instructions"),
         LAMBDA ingredients_match :
             IF ingredients_match[1]
             THEN << TRUE, BulletItems(ingredients_match[2], 1) >>
             ELSE << FALSE, << >> >>)

\* InstructionsOf with the placeholder list given to a block that has no
\* "### Instructions:" header
InstructionsOfOrDefault(recipe_block) ==
    Bind(CaptureUntil(recipe_block, "### Instructions:", "##"),
         LAMBDA instructions_match :
             IF instructions_match[1]
             THEN << TRUE, NumberedItems(instructions_match[2], 1) >>
             ELSE << TRUE, << "Recipe details not available" >> >>)

\* lines 374-378 and 456-460: <<found, instructions>>
InstructionsOf(recipe_block) ==
    Bind(CaptureUntil(recipe_block, "### Instructions:", "##"),
         LAMBDA instructions_match :
             IF instructions_match[1]
             THEN << TRUE, NumberedItems(instructions_match[2], 1) >>
             ELSE << FALSE, << >> >>)

\* the keys prep_time .. instructions added to recipe from its block, in the
\* order of the source
RecipeFields(recipe, recipe_block) ==
    SetIfFound(
        SetIfFound(
            SetIfFound(
                SetIfFound(
                    SetIfFound(recipe, "prep_time",
                        NumberAfter(recipe_block, "Preparation Time:", TRUE, 1)),
                    "cook_time",
                    NumberAfter(recipe_block, "Cooking Time:", TRUE, 1)),
                "servings", NumberAfter(recipe_block, "Servings:", FALSE, 1)),
            "ingredients", IngredientsOf(recipe_block)),
        "instructions", InstructionsOf(recipe_block))

(***************************************************************************)
(* Recipe blocks in fallback mode, lines 344-383                           *)
(***************************************************************************)
\* '##\s+\w+day:' at e: the position after the colon, or 0
DayMarkerEnd(s, e) ==
    IF ~At(s, e, "##") THEN 0
    ELSE Bind(SkipIn(s, e + 2, WS), LAMBDA w :
             IF w = e + 2 THEN 0 ELSE WordDayColon(s, w))

\* first position >= e where the lookahead (?=##\s+\w+day:|\Z) holds
NextDayMarker(s, e) ==
    Bind(First(e, Len(s), LAMBDA j : DayMarkerEnd(s, j) > 0), LAMBDA n :
        IF n = 0 THEN Len(s) + 1 ELSE n)

\* where group 2, ".+?", starts when r':\s+' begins at q: after the
\* whitespace run, or on its last character when the run reaches the end of
\* the text (DOTALL lets "." take it); 0 if there is no such position
BlockStart(s, q) ==
    Bind(SkipIn(s, q, WS), LAMBDA w :
        IF w = q THEN 0
        ELSE IF w <= Len(s) THEN w
        ELSE IF w - 1 > q THEN w - 1
        ELSE 0)

\* r'##\s+(\w+day):\s+(.+?)(?=##\s+\w+day:|\Z)' with re.DOTALL at p:
\* <<end, day, recipe_block>> or <<0>>
DaySectionAt(s, p) ==
    Bind(DayMarkerEnd(s, p), LAMBDA q :
        IF q = 0 THEN << 0 >>
        ELSE Bind(BlockStart(s, q), LAMBDA c :
                 IF c = 0 THEN << 0 >>
                 ELSE Bind(NextDayMarker(s, c + 1), LAMBDA e :
                          << e, SubSeq(s, SkipIn(s, p + 2, WS), q - 2),
                             SubSeq(s, c, e - 1) >>)))

\* recipe["name"] from re.match(r'(.+?)(?:\n|$)', recipe_block), lines 350-352
FallbackName(recipe, recipe_block) ==
    IF Ch(recipe_block, 1) \in {"", "\n"} THEN recipe
    ELSE SetKey(recipe, "name",
                Strip(SubSeq(recipe_block, 1, LineEnd(recipe_block, 2) - 1)))

FallbackRecipe(day, recipe_block) ==
    SetKey(RecipeFields(FallbackName(<< >>, recipe_block), recipe_block),
           "day", day)

RECURSIVE DaySections(_, _)
DaySections(s, p) ==
    Bind(First(p, Len(s), LAMBDA j : DaySectionAt(s, j)[1] # 0), LAMBDA n :
        IF n = 0 THEN << >>
        ELSE Bind(DaySectionAt(s, n), LAMBDA m :
                 << FallbackRecipe(m[2], m[3]) >> \o DaySections(s, m[1])))

FallbackRecipes(recipes_text) == DaySections(recipes_text \o "##", 1)

(***************************************************************************)
(* Recipe blocks in structured mode, lines 404-462                         *)
(***************************************************************************)
day_patterns == << "Monday", "Tuesday", "Wednesday", "Thursday", "Friday" >>

\* rf'##\s+{day}:' at p: the position after the colon, or 0
NamedDayMarkerEnd(s, p, day) ==
    IF ~At(s, p, "##") THEN 0
    ELSE Bind(SkipIn(s, p + 2, WS), LAMBDA w :
             IF w > p + 2 /\ At(s, w, day \o ":")
             THEN w + Len(day) + 1 ELSE 0)

\* the day whose marker starts at p, "" if none
MarkerDayAt(s, p) ==
    Bind({i \in 1..Len(day_patterns) : NamedDayMarkerEnd(s, p, day_patterns[i]) > 0},
         LAMBDA found :
             IF found = {} THEN "" ELSE day_patterns[CHOOSE i \in found : TRUE])

\* day_positions after day_positions.sort(): the (position, day) pairs of all
\* markers by increasing position (two markers never start at one position)
RECURSIVE DayPositions(_, _)
DayPositions(s, p) ==
    Bind(First(p, Len(s), LAMBDA j : MarkerDayAt(s, j) # ""), LAMBDA n :
        IF n = 0 THEN << >>
        ELSE << << n, MarkerDayAt(s, n) >> >> \o DayPositions(s, n + 1))

\* re.search(rf'##\s+{day}:\s+(.+?)(?:\n|$)', recipe_block) from p on:
\* <<found, group 1 stripped>>, lines 432-434
StructuredNameAt(s, p, day) ==
    Bind(NamedDayMarkerEnd(s, p, day), LAMBDA q :
        IF q = 0 THEN 0 ELSE WsThenDot(s, q))

StructuredNameMatch(s, p, day) ==
    Bind(First(p, Len(s), LAMBDA j : StructuredNameAt(s, j, day) # 0), LAMBDA n :
        IF n = 0 THEN << FALSE, "" >>
        ELSE Bind(StructuredNameAt(s, n, day), LAMBDA c :
                 << TRUE, Strip(SubSeq(s, c, LineEnd(s, c + 1) - 1)) >>))

StructuredRecipe(day, recipe_block) ==
    RecipeFields(SetIfFound([day |-> day], "name",
                            StructuredNameMatch(recipe_block, 1, day)),
                 recipe_block)

\* the blocks between consecutive markers, lines 418-462
BlocksOf(recipes_text, day_positions) ==
    [i \in 1..Len(day_positions) |->
        StructuredRecipe(
            day_positions[i][2],
            SubSeq(recipes_text, day_positions[i][1],
                   (IF i < Len(day_positions) THEN day_positions[i + 1][1]
                    ELSE Len(recipes_text) + 1) - 1))]

StructuredRecipes(recipes_text) ==
    BlocksOf(recipes_text, DayPositions(recipes_text, 1))

(***************************************************************************)
(* Extraction, lines 311-462                                               *)
(***************************************************************************)
\* "if match: extract(match.group(0))", for match = <<found, text>>
IfFound(match, Extract(_)) == IF match[1] THEN Extract(match[2]) ELSE << >>

\* FallbackPlan with the summary lines taken from the whole text when the
\* header MEAL PLAN SUMMARY is missing
FallbackPlanAnySummary(response_text_) ==
    [summary |->
        Bind(RegionUntil(response_text_, "MEAL PLAN SUMMARY", "SHOPPING LIST"),
             LAMBDA summary_match :
                 ExtractSummary(IF summary_match[1] THEN summary_match[2]
                                ELSE response_text_)),
     shopping_list |->
        IfFound(RegionUntil(response_text_, "SHOPPING LIST", "DETAILED RECIPES"),
                LAMBDA shopping_text : ExtractShoppingList(shopping_text, TRUE)),
     recipes |->
        IfFound(RegionToEnd(response_text_, "DETAILED RECIPES"), FallbackRecipes)]

FallbackPlan(response_text_) ==
    [summary |->
        IfFound(RegionUntil(response_text_, "MEAL PLAN SUMMARY", "SHOPPING LIST"),
                ExtractSummary),
     shopping_list |->
        IfFound(RegionUntil(response_text_, "SHOPPING LIST", "DETAILED RECIPES"),
                LAMBDA shopping_text : ExtractShoppingList(shopping_text, TRUE)),
     recipes |->
        IfFound(RegionToEnd(response_text_, "DETAILED RECIPES"), FallbackRecipes)]

\* StructuredPlan with the shopping pattern of the fallback mode, whose
\* bulleted lines must end in a newline
StructuredPlanStrictBullets(sections) ==
    [summary |-> ExtractSummary(Strip(sections[2])),
     shopping_list |-> ExtractShoppingList(Strip(sections[3]), TRUE),
     recipes |-> StructuredRecipes(Strip(sections[4]))]

StructuredPlan(sections) ==
    [summary |-> ExtractSummary(Strip(sections[2])),
     shopping_list |-> ExtractShoppingList(Strip(sections[3]), FALSE),
     recipes |-> StructuredRecipes(Strip(sections[4]))]

ExtractPlan(response_text_) ==
    Bind(SplitSections(response_text_), LAMBDA sections :
        IF Len(sections) < 4 THEN FallbackPlan(response_text_)
        ELSE StructuredPlan(sections))

(***************************************************************************)
(* Normalization and sort, lines 464-497                                   *)
(***************************************************************************)
weekdays == << "Monday", "Tuesday", "Wednesday", "Thursday", "Friday" >>

\* Placeholder with the formatter's default name in place of the given one
PlaceholderUnnamed(day, name) ==
    [day |-> day, name |-> "Unnamed Recipe", prep_time |-> 0, cook_time |-> 0,
     servings |-> 0, ingredients |-> << >>,
     instructions |-> << "Recipe details not available" >>]

Placeholder(day, name) ==
    [day |-> day, name |-> name, prep_time |-> 0, cook_time |-> 0,
     servings |-> 0, ingredients |-> << >>,
     instructions |-> << "Recipe details not available" >>]

\* FirstForDay with the last entry of the day taken instead of the first
LastForDay(summary, day) ==
    IF \E i \in 1..Len(summary) : summary[i].day = day
    THEN << TRUE, summary[CHOOSE i \in 1..Len(summary) :
                            /\ summary[i].day = day
                            /\ \A j \in (i + 1)..Len(summary) : summary[j].day # day] >>
    ELSE << FALSE, << >> >>

\* next((item for item in summary if item["day"] == day), None): <<found, item>>
FirstForDay(summary, day) ==
    IF \E i \in 1..Len(summary) : summary[i].day = day
    THEN << TRUE, summary[CHOOSE i \in 1..Len(summary) :
                            /\ summary[i].day = day
                            /\ \A j \in 1..(i - 1) : summary[j].day # day] >>
    ELSE << FALSE, << >> >>

\* the loop of lines 469-493 from weekday k on; existing_days is computed once,
\* before the loop
RECURSIVE AddMissingDays(_, _, _, _)
AddMissingDays(recipes, summary, existing_days, k) ==
    IF k > Len(weekdays) THEN recipes
    ELSE LET day == weekdays[k]
             day_meal == FirstForDay(summary, day)
         IN  IF day \in existing_days
             THEN AddMissingDays(recipes, summary, existing_days, k + 1)
             ELSE AddMissingDays(
                      Append(recipes,
                             Placeholder(day, IF day_meal[1] THEN day_meal[2].meal
                                              ELSE "Meal not specified")),
                      summary, existing_days, k + 1)

\* day_order.get(x.get("day", ""), 999)
DayOrder(recipe) ==
    IF "day" \in DOMAIN recipe /\ \E i \in 1..Len(weekdays) : weekdays[i] = recipe.day
    THEN (CHOOSE i \in 1..Len(weekdays) : weekdays[i] = recipe.day) - 1
    ELSE 999

\* WithKey with the entries of one key in reverse order (an unstable sort)
WithKeyReversed(recipes, k) ==
    LET Test(r) == DayOrder(r) = k
        sel == SelectSeq(recipes, Test)
    IN  [i \in 1..Len(sel) |-> sel[Len(sel) + 1 - i]]

\* the entries of recipes whose key is k, in their order
WithKey(recipes, k) ==
    LET Test(r) == DayOrder(r) = k IN SelectSeq(recipes, Test)

\* list.sort / sorted by DayOrder: stable
SortByDay(recipes) ==
    WithKey(recipes, 0) \o WithKey(recipes, 1) \o WithKey(recipes, 2)
        \o WithKey(recipes, 3) \o WithKey(recipes, 4) \o WithKey(recipes, 999)

Normalize(recipes, summary) ==
    LET existing_days == {recipes[i].day : i \in 1..Len(recipes)}
    IN  SortByDay(AddMissingDays(recipes, summary, existing_days, 1))

\* parse_meal_plan_response
NormalizePlan(plan) ==
    [plan EXCEPT !.recipes = Normalize(plan.recipes, plan.summary)]

ParseMealPlanResponse(response_text_) == NormalizePlan(ExtractPlan(response_text_))

(***************************************************************************)
(* format_structured_meal_plan, lines 501-582                              *)
(***************************************************************************)
\* "\n".join(lines)
RECURSIVE Join(_)
Join(lines) ==
    IF Len(lines) = 0 THEN ""
    ELSE IF Len(lines) = 1 THEN lines[1]
    ELSE lines[1] \o "\n" \o Join(Tail(lines))

\* str(n) of an f-string, for a natural number n
RECURSIVE Str(_)
Str(n) ==
    (IF n < 10 THEN "" ELSE Str(n \div 10))
        \o SubSeq("0123456789", (n % 10) + 1, (n % 10) + 1)

\* the lines of the summary, lines 518-525
SummaryLines(plan) ==
    << "# 1. MEAL PLAN SUMMARY" >>
        \o (IF Len(plan.summary) > 0
            THEN [i \in 1..Len(plan.summary) |->
                     plan.summary[i].day \o ": " \o plan.summary[i].meal]
            ELSE << "No meal summary available." >>)
        \o << "" >>

\* the lines of one shopping category, lines 531-534
CategoryLines(entry) ==
    << "## " \o entry.category >>
        \o [i \in 1..Len(entry.items) |-> "- " \o entry.items[i]]
        \o << "" >>

RECURSIVE AllCategoryLines(_)
AllCategoryLines(d) ==
    IF Len(d) = 0 THEN << >>
    ELSE CategoryLines(Head(d)) \o AllCategoryLines(Tail(d))

\* the lines of the shopping list, lines 528-537
ShoppingLines(plan) ==
    << "# 2. SHOPPING LIST" >>
        \o (IF Len(plan.shopping_list) > 0
            THEN AllCategoryLines(plan.shopping_list)
            ELSE << "No shopping list available.", "" >>)

\* recipe.get(key, default)
Get(recipe, key, default) ==
    IF key \in DOMAIN recipe THEN recipe[key] ELSE default

\* the lines of one recipe, lines 554-576
RecipeLines(recipe) ==
    << "## " \o Get(recipe, "day", "Day") \o ": "
             \o Get(recipe, "name", "Unnamed Recipe") >>
        \o (IF "prep_time" \in DOMAIN recipe
            THEN << "Preparation Time: " \o Str(recipe.prep_time) \o " minutes" >>
            ELSE << >>)
        \o (IF "cook_time" \in DOMAIN recipe
            THEN << "Cooking Time: " \o Str(recipe.cook_time) \o " minutes" >>
            ELSE << >>)
        \o (IF "servings" \in DOMAIN recipe
            THEN << "Servings: " \o Str(recipe.servings) >>
            ELSE << >>)
        \o << "" >>
        \o (IF "ingredients" \in DOMAIN recipe
            THEN << "### Ingredients:" >>
                 \o [i \in 1..Len(recipe.ingredients) |->
                        "- " \o recipe.ingredients[i]]
                 \o << "" >>
            ELSE << >>)
        \o (IF "instructions" \in DOMAIN recipe
            THEN << "### Instructions:" >>
                 \o [i \in 1..Len(recipe.instructions) |->
                        Str(i) \o ". " \o recipe.instructions[i]]
                 \o << "" >>
            ELSE << >>)

\* RecipeParts with the message of a recipe cut in two before its instructions
RecipePartsSplit(recipes) ==
    [i \in 1..(2 * Len(recipes)) |->
        LET lines == RecipeLines(recipes[(i + 1) \div 2])
            cut == IF \E j \in 1..Len(lines) : lines[j] = "### Instructions:"
                   THEN CHOOSE j \in 1..Len(lines) : lines[j] = "### Instructions:"
                   ELSE Len(lines) + 1
        IN  IF i % 2 = 1 THEN Join(SubSeq(lines, 1, cut - 1))
            ELSE Join(SubSeq(lines, cut, Len(lines)))]

\* one message per recipe, line 578
RecipeParts(recipes) == [i \in 1..Len(recipes) |-> Join(RecipeLines(recipes[i]))]

\* FormatStructuredMealPlan with the recipes taken in the order of the plan
FormatStructuredMealPlanUnsorted(plan) ==
    << Join(SummaryLines(plan) \o ShoppingLines(plan)) >>
        \o (IF Len(plan.recipes) > 0
            THEN << "# 3. DETAILED RECIPES" >> \o RecipeParts(plan.recipes)
            ELSE << "No recipes available." >>)

FormatStructuredMealPlan(plan) ==
    << Join(SummaryLines(plan) \o ShoppingLines(plan)) >>
        \o (IF Len(plan.recipes) > 0
            THEN << "# 3. DETAILED RECIPES" >>
                 \o RecipeParts(SortByDay(plan.recipes))
            ELSE << "No recipes available." >>)

\* FormatCall with the recipes of the argument sorted in place
\* (structured_plan["recipes"].sort(...) in place of sorted(...))
FormatCallSortInPlace(plan) ==
    [structured_plan |-> [plan EXCEPT !.recipes = SortByDay(plan.recipes)],
     message_parts |-> FormatStructuredMealPlan(plan)]

\* a call of format_structured_meal_plan: the argument as the call leaves it
\* and the list returned.  The function appends to lists of its own (part1,
\* day_recipe, message_parts) and sorts with sorted(), which builds a new
\* list (line 546); it assigns to no key of the argument.
FormatCall(plan) ==
    [structured_plan |-> plan,
     message_parts |-> FormatStructuredMealPlan(plan)]

(***************************************************************************)
(* The replies of the completion gateway the model explores.  A reply is   *)
(* written by the language model, so its form is not guaranteed; the       *)
(* replies below vary the headers, the summary lines and the recipe blocks.*)
(***************************************************************************)
MaxSummaryLines == 6
MaxBlocks == 2
MaxSteps == 12

Titles == << "MEAL PLAN SUMMARY", "SHOPPING LIST", "DETAILED RECIPES" >>

Layouts == {"numbered", "plain", "partial", "none"}

\* the header line of section k, if the layout has one; "mixedcase" writes
\* the titles as a reply may write them, not in capitals
Header(layout, k) ==
    CASE layout = "numbered" -> << "# " \o Str(k) \o ". " \o Titles[k] >>
      [] layout = "plain" -> << Titles[k] >>
      [] layout = "partial" ->
            IF k = 2 THEN << >> ELSE << "# " \o Str(k) \o ". " \o Titles[k] >>
      [] layout = "none" -> << >>
      [] layout = "mixedcase" ->
            << << "Meal Plan Summary", "Shopping List", "Detailed Recipes" >>[k] >>

SummaryBody(n) ==
    LET lib == << "Monday: Tacos", "Tuesday: Soup", "Saturday: Roast",
                  "Monday: Stew", "Thursday: Pasta", "Friday: Fish" >>
    IN  [i \in 1..n |-> lib[((i - 1) % Len(lib)) + 1]]

\* numbers of summary lines: none, two weekdays, a Saturday line among them,
\* and more lines than weekdays
SummaryCounts == {0, 2, 3, MaxSummaryLines}

ShoppingBodies ==
    { << >>, << "## Produce", "- kale", "* peas", "", "## Dairy", "- milk" >> }

\* the recipe blocks of the replies: a stew, tacos, a roast and a curry
BlockLib ==
    << << "## Monday: Stew", "Preparation Time: 10 minutes",
          "Cooking Time: 25 minutes", "Servings: 4", "" >>,
       << "## Monday: Tacos", "", "### Ingredients:", "- beans", "* corn", "",
          "### Instructions:", "1. Fry beans", "2. Serve", "" >>,
       << "## Saturday: Roast" >>,
       << "## Wednesday: Curry", "### Ingredients:", "- rice" >> >>

\* the sequences of at most n block numbers
RECURSIVE BlockChoices(_)
BlockChoices(n) ==
    IF n = 0 THEN { << >> }
    ELSE BlockChoices(n - 1)
            \cup {Append(b, k) : b \in {c \in BlockChoices(n - 1) : Len(c) = n - 1},
                                 k \in 1..Len(BlockLib)}

RECURSIVE BlockLines(_)
BlockLines(b) ==
    IF Len(b) = 0 THEN << >> ELSE BlockLib[Head(b)] \o BlockLines(Tail(b))

ReplyText(layout, n, shopping, blocks) ==
    Join(Header(layout, 1) \o SummaryBody(n)
            \o Header(layout, 2) \o shopping
            \o Header(layout, 3) \o BlockLines(blocks))

Replies ==
    {ReplyText(layout, n, shopping, blocks) :
        layout \in Layouts, n \in SummaryCounts,
        shopping \in ShoppingBodies, blocks \in BlockChoices(MaxBlocks)}

\* replies whose three headers are not in capitals
MixedCaseReplies ==
    {ReplyText("mixedcase", n, shopping, blocks) :
        n \in SummaryCounts, shopping \in ShoppingBodies,
        blocks \in BlockChoices(1)}

\* replies whose numbered sections are in another order, replies with a
\* numbered header more before the three sections, and replies with "# 2. "
\* inside a line of the summary
ShiftedReplies ==
    {Join(<< "# 1. SHOPPING LIST", "## Produce", "- kale", "" >>
             \o << "# 2. MEAL PLAN SUMMARY" >> \o SummaryBody(n)
             \o << "# 3. DETAILED RECIPES" >> \o BlockLines(blocks)) :
        n \in {2}, blocks \in BlockChoices(1)}
    \cup
    {Join(<< "# 1. NOTES", "Friday: Fish for everyone" >>
             \o << "# 2. MEAL PLAN SUMMARY" >> \o SummaryBody(n)
             \o << "# 3. SHOPPING LIST", "## Produce", "- kale", "" >>
             \o << "# 4. DETAILED RECIPES" >> \o BlockLines(blocks)) :
        n \in {2}, blocks \in BlockChoices(1)}
    \cup
    {Join(<< "# 1. MEAL PLAN SUMMARY",
             "Thursday: Pasta, see # 2. for the sauce" >>
             \o SummaryBody(n)
             \o << "# 2. SHOPPING LIST", "## Produce", "- kale", "" >>
             \o << "# 3. DETAILED RECIPES" >> \o BlockLines(blocks)) :
        n \in {2}, blocks \in BlockChoices(1)}

\* shopping sections with a category header of blanks only, with a bare
\* "##", and with a category that comes twice
OddShoppingReplies ==
    {ReplyText(layout, n, shopping, blocks) :
        layout \in {"numbered", "plain"}, n \in {0, 2},
        shopping \in
            { << "##  ", "- kale" >>,
              << "##", "- milk", "- tea" >>,
              << "## Dairy", "- milk", "## Produce", "- kale",
                 "## Dairy", "- brie" >> },
        blocks \in BlockChoices(0)}

\* replies with one long recipe: k instruction steps of 359 characters each
LongReplies ==
    LET sentence == "Stir the pot slowly and taste the sauce, then season again."
        step == sentence \o " " \o sentence \o " " \o sentence \o " "
                    \o sentence \o " " \o sentence \o " " \o sentence
    IN  {Join(Header("numbered", 1) \o SummaryBody(1)
                 \o Header("numbered", 2) \o Header("numbered", 3)
                 \o << "## Monday: Tacos", "### Instructions:" >>
                 \o [i \in 1..k |-> Str(i) \o ". " \o step]) :
            k \in 1..MaxSteps}

EmptyPlan == [summary |-> << >>, shopping_list |-> << >>, recipes |-> << >>]

(***************************************************************************)
(* The meal-plan path of the handlers (src/bot/handlers.py, lines 209-213  *)
(* and 315-319): the reply is parsed, then the plan is formatted.          *)
(***************************************************************************)
(***************************************************************************)
(* The handlers' state while a single call of the parser or the formatter  *)
(* is studied: no update has been dispatched.                              *)
(***************************************************************************)
\* the handlers that may be in flight at once
Slots == {1, 2}

\* the locals of a handler coroutine: the user and the agent id it read, the
\* request it built, the reply it got, the message parts and the loop
\* position, the texts it sent, the gateway calls it made
IdleTask ==
    [kind |-> "none", user |-> 0, pc |-> "idle", agent |-> "", messages |-> << >>,
     reply |-> "", parts |-> << >>, next |-> 0, sent |-> << >>, calls |-> 0,
     failed |-> FALSE]

\* user_data_store = {} (utils.py line 9), no handler running
NoUpdates ==
    /\ user_data_store = << >>
    /\ tasks = [t \in Slots |-> IdleTask]
    /\ events = 0
    /\ args = << >>
    /\ current_month = 1
    /\ servings = 4
    /\ meal_plan_prompt = << >>

Init ==
    /\ NoUpdates
    /\ pc = "reply"
    /\ template_plan = EmptyPlan
    /\ response_text \in Replies \cup LongReplies \cup MixedCaseReplies
                            \cup ShiftedReplies \cup OddShoppingReplies
    /\ extracted_recipes = << >>
    /\ structured_plan = EmptyPlan
    /\ message_parts = << >>

\* structured_plan = chef_agent.parse_meal_plan_response(raw_meal_plan)
Parse ==
    /\ pc = "reply"
    /\ \E plan \in {ExtractPlan(response_text)} :
          /\ extracted_recipes' = plan.recipes
          /\ structured_plan' = NormalizePlan(plan)
    /\ pc' = "parsed"
    /\ UNCHANGED << template_plan, response_text, message_parts,
                    user_data_store, tasks, events,
                    args, current_month, servings, meal_plan_prompt >>

\* message_parts = chef_agent.format_structured_meal_plan(structured_plan)
Format ==
    /\ pc = "parsed"
    /\ \E call \in {FormatCall(structured_plan)} :
          /\ structured_plan' = call.structured_plan
          /\ message_parts' = call.message_parts
    /\ pc' = "formatted"
    /\ UNCHANGED << template_plan, response_text, extracted_recipes,
                    user_data_store, tasks, events,
                    args, current_month, servings, meal_plan_prompt >>

Next == Parse \/ Format

Spec == Init /\ [][Next]_vars

(***************************************************************************)
(* Replies that follow the template of format_meal_plan_prompt             *)
(* (lines 202-295): a plan written out line by line as the template asks.  *)
(***************************************************************************)
MaxCategories == 2
MaxIngredients == 2
MaxInstructions == 2

\* lines 203-207
TemplateSummary(summary) ==
    [i \in 1..Len(summary) |-> summary[i].day \o ": " \o summary[i].meal]

\* lines 210-228, one category
TemplateCategory(entry) ==
    << "## " \o entry.category >>
        \o [i \in 1..Len(entry.items) |-> "- " \o entry.items[i]]
        \o << "" >>

RECURSIVE TemplateShopping(_)
TemplateShopping(d) ==
    IF Len(d) = 0 THEN << >>
    ELSE TemplateCategory(Head(d)) \o TemplateShopping(Tail(d))

\* lines 232-243, one recipe; a field the recipe does not have leaves its
\* line or sub-block out
TemplateRecipe(recipe) ==
    << "## " \o recipe.day \o ": " \o recipe.name >>
        \o (IF "prep_time" \in DOMAIN recipe
            THEN << "Preparation Time: " \o Str(recipe.prep_time) \o " minutes" >>
            ELSE << >>)
        \o (IF "cook_time" \in DOMAIN recipe
            THEN << "Cooking Time: " \o Str(recipe.cook_time) \o " minutes" >>
            ELSE << >>)
        \o (IF "servings" \in DOMAIN recipe
            THEN << "Servings: " \o Str(recipe.servings) >>
            ELSE << >>)
        \o << "" >>
        \o (IF "ingredients" \in DOMAIN recipe
            THEN << "### Ingredients:" >>
                 \o [i \in 1..Len(recipe.ingredients) |->
                        "- " \o recipe.ingredients[i]]
                 \o << "" >>
            ELSE << >>)
        \o (IF "instructions" \in DOMAIN recipe
            THEN << "### Instructions:" >>
                 \o [i \in 1..Len(recipe.instructions) |->
                        Str(i) \o ". " \o recipe.instructions[i]]
                 \o << "" >>
            ELSE << >>)

RECURSIVE TemplateRecipes(_)
TemplateRecipes(recipes) ==
    IF Len(recipes) = 0 THEN << >>
    ELSE TemplateRecipe(Head(recipes)) \o TemplateRecipes(Tail(recipes))

\* lines 202-295
Render(plan) ==
    Join(<< "# 1. MEAL PLAN SUMMARY" >> \o TemplateSummary(plan.summary)
            \o << "", "# 2. SHOPPING LIST" >> \o TemplateShopping(plan.shopping_list)
            \o << "# 3. DETAILED RECIPES", "" >> \o TemplateRecipes(plan.recipes))

\* the plans that are rendered: texts as a cook writes them, with digits,
\* hyphens, colons and full stops inside
MealNames ==
    << "Tacos", "Mac & Cheese", "Sunday: roast", "Stir-fry no. 2", "Chili 2.0" >>

CategoryLib ==
    << [category |-> "Produce", items |-> << "kale", "sun-dried tomatoes" >>],
       [category |-> "Meat/Protein", items |-> << "2 lbs chicken" >>],
       [category |-> "Spices & Herbs", items |-> << "thyme" >>] >>

\* the recipe of weekday d (1..5) with g ingredients, h steps; the times and
\* servings are present when t is TRUE
PlanRecipe(d, g, h, t) ==
    LET IngredientLib ==
            << "1.5 cups rice", "2 - 3 eggs", "1 can (14 oz.) beans" >>
        InstructionLib ==
            << "Bake at 350. Rest for 10 minutes", "Add 2. Stir", "Serve: hot" >>
        TimeLib == << 5, 10, 0, 120, 35 >>
        base == [day |-> weekdays[d], name |-> MealNames[d],
                 ingredients |-> SubSeq(IngredientLib, 1, g),
                 instructions |-> SubSeq(InstructionLib, 1, h)]
    IN  IF t
        THEN SetKey(SetKey(SetKey(base, "prep_time", TimeLib[d]),
                           "cook_time", TimeLib[6 - d]), "servings", 3 + d)
        ELSE base

\* the shape of each day's recipe is shifted by the day, so that one plan has
\* recipes of several shapes
TemplatePlan(k, c, g, h, t) ==
    [summary |-> [i \in 1..k |-> [day |-> weekdays[i], meal |-> MealNames[i]]],
     shopping_list |-> SubSeq(CategoryLib, 1, c),
     recipes |-> [d \in 1..Len(weekdays) |->
                    PlanRecipe(d, (g + d) % (MaxIngredients + 1),
                               (h + d) % (MaxInstructions + 1),
                               t = (d % 2 = 0))]]

TemplatePlans ==
    {TemplatePlan(k, c, g, h, t) :
        k \in 0..Len(weekdays), c \in 0..MaxCategories,
        g \in 0..MaxIngredients, h \in 0..MaxInstructions, t \in BOOLEAN}

InitRoundTrip ==
    /\ NoUpdates
    /\ pc = "reply"
    /\ template_plan \in TemplatePlans
    /\ response_text = Render(template_plan)
    /\ extracted_recipes = << >>
    /\ structured_plan = EmptyPlan
    /\ message_parts = << >>

SpecRoundTrip == InitRoundTrip /\ [][Next]_vars

(***************************************************************************)
(* The formatter on plans of any form: a caller may hand it a plan whose   *)
(* recipes are in any order, with days that are no weekdays, with a recipe *)
(* without a day, or with no recipes.                                      *)
(***************************************************************************)
MaxPlanRecipes == 3

FormatterRecipeLib ==
    << PlanRecipe(1, 2, 2, TRUE), PlanRecipe(3, 1, 0, FALSE),
       PlanRecipe(5, 0, 1, TRUE), [day |-> "Saturday", name |-> "Roast"],
       [name |-> "Soup", servings |-> 2] >>

\* the sequences of at most n numbers of FormatterRecipeLib
RECURSIVE RecipeChoices(_)
RecipeChoices(n) ==
    IF n = 0 THEN { << >> }
    ELSE RecipeChoices(n - 1)
            \cup {Append(b, k) : b \in {c \in RecipeChoices(n - 1) : Len(c) = n - 1},
                                 k \in 1..Len(FormatterRecipeLib)}

FormatterPlan(k, c, choice) ==
    [summary |-> [i \in 1..k |-> [day |-> weekdays[i], meal |-> MealNames[i]]],
     shopping_list |-> SubSeq(CategoryLib, 1, c),
     recipes |-> [i \in 1..Len(choice) |-> FormatterRecipeLib[choice[i]]]]

FormatterPlans ==
    {FormatterPlan(k, c, choice) :
        k \in {0, 2}, c \in {0, MaxCategories},
        choice \in RecipeChoices(MaxPlanRecipes)}

\* template_plan keeps the plan as it is handed to the formatter
InitFormat ==
    /\ NoUpdates
    /\ pc = "parsed"
    /\ template_plan \in FormatterPlans
    /\ response_text = ""
    /\ extracted_recipes = << >>
    /\ structured_plan = template_plan
    /\ message_parts = << >>

SpecFormat == InitFormat /\ [][Format]_vars

(***************************************************************************)
(* The bot: handlers of src/bot/handlers.py on the store of                *)
(* src/bot/utils.py.  A handler is a coroutine; it runs without            *)
(* interruption up to an await that waits for the network (reply_text,     *)
(* send_chat_action, query.answer, edit_message_text) or for a timer       *)
(* (asyncio.sleep), where other handlers may run.  The gateway call        *)
(* openai_service.generate_response is not awaited: nothing runs during    *)
(* it.  get_user_data returns the dict held in the store, so every write   *)
(* to user_data is a write to the store, and update_user_data puts the     *)
(* same dict back.  A message handed to Telegram is delivered.             *)
(***************************************************************************)
MaxEvents == 2

\* config.MAX_HISTORY_LENGTH
MAX_HISTORY_LENGTH == 10

\* config.ALLOWED_USERS: read by handlers.py lines 20 and 91
ALLOWED_USERS == {1, 2}

Users == {1, 2, 3}

\* the keys of AGENTS, agents/__init__.py lines 12-17
AgentIds == {"default", "chef", "fitness", "programmer"}

\* the agents whose button is pressed
ButtonChoices == {"default", "chef"}

\* agents/*.py, name=
AgentName(agent_id) ==
    CASE agent_id = "chef" -> "Chef Gordon's Personalized Meal Planner"
      [] agent_id = "fitness" -> "Fitness Coach Alex"
      [] agent_id = "programmer" -> "Dev Maya"
      [] OTHER -> "Assistant"

\* the texts of the messages users write
UserMessages == {"hello", "A Meal Plan, please"}

LowerChar(c) ==
    CASE c = "A" -> "a" [] c = "B" -> "b" [] c = "C" -> "c" [] c = "D" -> "d"
      [] c = "E" -> "e" [] c = "F" -> "f" [] c = "G" -> "g" [] c = "H" -> "h"
      [] c = "I" -> "i" [] c = "J" -> "j" [] c = "K" -> "k" [] c = "L" -> "l"
      [] c = "M" -> "m" [] c = "N" -> "n" [] c = "O" -> "o" [] c = "P" -> "p"
      [] c = "Q" -> "q" [] c = "R" -> "r" [] c = "S" -> "s" [] c = "T" -> "t"
      [] c = "U" -> "u" [] c = "V" -> "v" [] c = "W" -> "w" [] c = "X" -> "x"
      [] c = "Y" -> "y" [] c = "Z" -> "z" [] OTHER -> c

\* str.lower()
RECURSIVE Lower(_)
Lower(s) ==
    IF Len(s) = 0 THEN "" ELSE LowerChar(SubSeq(s, 1, 1)) \o Lower(SubSeq(s, 2, Len(s)))

\* line 255: any(keyword in user_message.lower() for keyword in [...])
IsMealPlanRequest(user_message) ==
    \E keyword \in {"meal plan", "weekly plan", "plan meals"} :
        Find(Lower(user_message), keyword, 1) > 0

\* the first line of the prompt of format_meal_plan_prompt, chef.py line 190;
\* the rest of the prompt is left out
MealPlanPrompt(n) ==
    "Please create a 5-day weekday dinner meal plan for "
        \o (IF n < 0 THEN "-" \o Str(0 - n) ELSE Str(n))
        \o " people following these guidelines:"

\* the gateway raises (openai_service.py lines 42-44)
GatewayError == "raise"

\* what the gateway returns for a chat request
ChatReplies == {"Sure."}

\* what the gateway returns for a meal-plan prompt
MealPlanReplies == {ReplyText("plain", 2, << >>, << 2 >>)}

\* chef_agent.format_structured_meal_plan(chef_agent.parse_meal_plan_response(
\* raw_meal_plan)), lines 210-213 and 316-319
MessageParts ==
    [raw_meal_plan \in MealPlanReplies |->
        FormatStructuredMealPlan(ParseMealPlanResponse(raw_meal_plan))]

NotAuthorizedNotice ==
    "Sorry, you're not authorized to use this bot. Please contact the bot owner for access."

NotAuthorizedAlert == "You are not authorized to use this bot."

PreparingNotice ==
    "Chef Gordon is preparing a personalized meal plan. This will take a moment..."

MealPlanApology ==
    "I'm sorry, I encountered an error while creating your meal plan. Please try again later."

ChatApology ==
    "I'm sorry, I encountered an error while processing your message. Please try again later."

ResetNotice(agent_id) ==
    "Your conversation with " \o AgentName(agent_id) \o " has been reset."

SwitchNotice(agent_id) ==
    "You are now talking to " \o AgentName(agent_id) \o ". How can I help you?"

Entry(role, content) == [role |-> role, content |-> content]

\* utils.py lines 24-27
NewUserData ==
    [current_agent |-> "default", conversations |-> [a \in AgentIds |-> << >>]]

\* the store after get_user_data(user_id), utils.py lines 22-29
GetUserData(store, user_id) ==
    IF user_id \in DOMAIN store THEN store ELSE (user_id :> NewUserData) @@ store

\* get_user_data alone, the assignment of current_agent left out
SelectAgentNot(store, user_id, agent_id) == GetUserData(store, user_id)

\* user_data = get_user_data(user_id); user_data["current_agent"] = agent_id
\* (lines 146-150, 103-107)
SelectAgent(store, user_id, agent_id) ==
    [GetUserData(store, user_id) EXCEPT ![user_id].current_agent = agent_id]

\* SetHistory on every history of the user
SetHistoryEvery(store, user_id, agent_id, history) ==
    [store EXCEPT ![user_id].conversations = [a \in AgentIds |-> history]]

\* user_data["conversations"][agent_id] = history, the key made when missing
\* (lines 202-203, 249-250)
SetHistory(store, user_id, agent_id, history) ==
    [store EXCEPT ![user_id].conversations = (agent_id :> history) @@ @]

HistoryOf(store, user_id, agent_id) ==
    IF agent_id \in DOMAIN store[user_id].conversations
    THEN store[user_id].conversations[agent_id]
    ELSE << >>

\* AppendHistory on one history per agent that all users share
AppendHistoryShared(store, user_id, agent_id, entries) ==
    [u \in DOMAIN store |->
        [store[u] EXCEPT !.conversations =
            (agent_id :> (HistoryOf(store, user_id, agent_id) \o entries)) @@ @]]

\* AppendHistory with the entries put in front, as if by insert(0, ...)
AppendHistoryFront(store, user_id, agent_id, entries) ==
    SetHistory(store, user_id, agent_id,
               entries \o HistoryOf(store, user_id, agent_id))

\* user_data["conversations"][agent_id].append(...) for each of entries
AppendHistory(store, user_id, agent_id, entries) ==
    SetHistory(store, user_id, agent_id,
               HistoryOf(store, user_id, agent_id) \o entries)

\* the whole history, as if line 336 read *conversation_history
LastNWhole(history, n) == history

\* conversation_history[-n:]
LastN(history, n) ==
    IF Len(history) <= n THEN history
    ELSE SubSeq(history, Len(history) - n + 1, Len(history))

\* NextPart with the parts of a single line left out as well
NextPartOfSeveralLines(parts, i) ==
    First(i, Len(parts), LAMBDA j : Find(Strip(parts[j]), "\n", 1) > 0)

\* the loop "for part in message_parts: if part.strip(): ..." (lines 221-225,
\* 322-326): the next part from position i on that is sent, 0 if none
NextPart(parts, i) == First(i, Len(parts), LAMBDA j : Strip(parts[j]) # "")

\* the handler after the reply has come: the parts are made and the first
\* of them is handed to reply_text
StartSending(task, raw_meal_plan, parts, i) ==
    IF i = 0
    THEN IdleTask
    ELSE [task EXCEPT !.reply = raw_meal_plan, !.parts = parts,
                      !.next = i + 1, !.calls = @ + 1,
                      !.sent = Append(@, parts[i]), !.pc = "sending"]

\* a slot takes the next update when no handler runs in it
Free(t) ==
    /\ tasks[t].pc = "idle"
    /\ \A s \in Slots : s < t => tasks[s].pc # "idle"
    /\ events < MaxEvents

\* check_authorization after get_user_data, as if the handler read the store
\* before the check
RefuseAfterEntry(t, kind, user_id) ==
    /\ user_id \notin ALLOWED_USERS
    /\ tasks' = [tasks EXCEPT ![t] =
                    [IdleTask EXCEPT !.kind = kind, !.user = user_id,
                                     !.pc = "replying",
                                     !.sent = << NotAuthorizedNotice >>]]
    /\ user_data_store' = GetUserData(user_data_store, user_id)

\* check_authorization fails: lines 20-25
Refuse(t, kind, user_id) ==
    /\ user_id \notin ALLOWED_USERS
    /\ tasks' = [tasks EXCEPT ![t] =
                    [IdleTask EXCEPT !.kind = kind, !.user = user_id,
                                     !.pc = "replying",
                                     !.sent = << NotAuthorizedNotice >>]]
    /\ UNCHANGED user_data_store

Frame ==
    UNCHANGED << pc, template_plan, response_text, extracted_recipes,
                 structured_plan, message_parts,
                 args, current_month, servings, meal_plan_prompt >>

\* meal_plan_command, lines 138-154, up to the await of reply_text
MealPlanCommand(t, user_id) ==
    /\ Free(t)
    /\ events' = events + 1
    /\ \/ Refuse(t, "mealplan", user_id)
       \/ /\ user_id \in ALLOWED_USERS
          /\ user_data_store' = SelectAgent(user_data_store, user_id, "chef")
          /\ tasks' = [tasks EXCEPT ![t] =
                          [IdleTask EXCEPT !.kind = "mealplan", !.user = user_id,
                                           !.pc = "preparing",
                                           !.sent = << PreparingNotice >>]]
    /\ Frame

\* meal_plan_command, line 157: await send_chat_action
MealPlanTyping(t) ==
    /\ tasks[t].pc = "preparing"
    /\ tasks' = [tasks EXCEPT ![t].pc = "typing"]
    /\ UNCHANGED << user_data_store, events >>
    /\ Frame

\* meal_plan_command, lines 159-231, from the gateway call up to the await of
\* the first reply_text
MealPlanGenerate(t) ==
    /\ tasks[t].pc = "typing"
    /\ \E outcome \in {GatewayError} \cup MealPlanReplies :
          IF outcome = GatewayError
          THEN /\ tasks' = [tasks EXCEPT ![t].calls = @ + 1, ![t].failed = TRUE,
                                         ![t].sent = Append(@, MealPlanApology),
                                         ![t].pc = "replying"]
               /\ UNCHANGED user_data_store
          ELSE /\ user_data_store' =
                     AppendHistory(user_data_store, tasks[t].user, "chef",
                                   << Entry("user", MealPlanPrompt(4)),
                                      Entry("assistant", outcome) >>)
               /\ tasks' = [tasks EXCEPT ![t] =
                               StartSending(tasks[t], outcome, MessageParts[outcome],
                                            NextPart(MessageParts[outcome], 1))]
    /\ UNCHANGED events
    /\ Frame

\* the loop of lines 221-225 and 322-326 after the sleep: the next part is
\* handed to reply_text, or the handler returns
SendPart(t) ==
    /\ tasks[t].pc = "sending"
    /\ \E i \in {NextPart(tasks[t].parts, tasks[t].next)} :
          IF i = 0
          THEN tasks' = [tasks EXCEPT ![t] = IdleTask]
          ELSE tasks' = [tasks EXCEPT ![t].next = i + 1,
                                      ![t].sent = Append(@, tasks[t].parts[i])]
    /\ UNCHANGED << user_data_store, events >>
    /\ Frame

\* handle_message, lines 233-340: up to the await of the first reply_text on
\* the meal-plan path (the gateway call of line 304 is in no try block, so its
\* exception ends the handler), up to the await of send_chat_action otherwise
HandleMessage(t, user_id, user_message) ==
    /\ Free(t)
    /\ events' = events + 1
    /\ \/ Refuse(t, "message", user_id)
       \/ /\ user_id \in ALLOWED_USERS
          /\ \E current_agent_id \in
                    {GetUserData(user_data_store, user_id)[user_id].current_agent} :
             \E store \in
                    {AppendHistory(GetUserData(user_data_store, user_id), user_id,
                                   current_agent_id,
                                   << Entry("user", user_message) >>)} :
             \E task \in {[IdleTask EXCEPT !.kind = "message", !.user = user_id,
                                           !.agent = current_agent_id]} :
                IF current_agent_id = "chef" /\ IsMealPlanRequest(user_message)
                THEN \E outcome \in {GatewayError} \cup MealPlanReplies :
                        IF outcome = GatewayError
                        THEN /\ user_data_store' = store
                             /\ tasks' = [tasks EXCEPT ![t] =
                                             [task EXCEPT !.calls = 1,
                                                          !.failed = TRUE,
                                                          !.pc = "raised"]]
                        ELSE /\ user_data_store' =
                                   AppendHistory(store, user_id, current_agent_id,
                                       << Entry("user", MealPlanPrompt(4)),
                                          Entry("assistant", outcome) >>)
                             /\ tasks' = [tasks EXCEPT ![t] =
                                   StartSending(task, outcome, MessageParts[outcome],
                                                NextPart(MessageParts[outcome], 1))]
                ELSE /\ user_data_store' = store
                     /\ tasks' = [tasks EXCEPT ![t] =
                           [task EXCEPT
                               !.messages =
                                   << Entry("system", AgentName(current_agent_id)) >>
                                       \o LastN(HistoryOf(store, user_id,
                                                          current_agent_id),
                                                MAX_HISTORY_LENGTH),
                               !.pc = "chat_typing"]]
    /\ Frame

\* the store with the last entry of the history taken back, as if the except
\* branch removed the message that got no answer
AfterChatFailureRollback(store, user_id, agent_id) ==
    SetHistory(store, user_id, agent_id,
               SubSeq(HistoryOf(store, user_id, agent_id), 1,
                      Len(HistoryOf(store, user_id, agent_id)) - 1))

\* the store after the except branch of lines 357-361, which logs and sends
\* the apology: the store is not touched
AfterChatFailure(store, user_id, agent_id) == store

\* handle_message, lines 342-361
ChatGenerate(t) ==
    /\ tasks[t].pc = "chat_typing"
    /\ \E outcome \in {GatewayError} \cup ChatReplies :
          IF outcome = GatewayError
          THEN /\ tasks' = [tasks EXCEPT ![t].calls = @ + 1, ![t].failed = TRUE,
                                         ![t].sent = Append(@, ChatApology),
                                         ![t].pc = "replying"]
               /\ user_data_store' =
                     AfterChatFailure(user_data_store, tasks[t].user,
                                      tasks[t].agent)
          ELSE /\ user_data_store' =
                     AppendHistory(user_data_store, tasks[t].user, tasks[t].agent,
                                   << Entry("assistant", outcome) >>)
               /\ tasks' = [tasks EXCEPT ![t].calls = @ + 1, ![t].reply = outcome,
                                         ![t].sent = Append(@, outcome),
                                         ![t].pc = "replying"]
    /\ UNCHANGED events
    /\ Frame

\* reset, lines 116-136
Reset(t, user_id) ==
    /\ Free(t)
    /\ events' = events + 1
    /\ \/ Refuse(t, "reset", user_id)
       \/ /\ user_id \in ALLOWED_USERS
          /\ \E store \in {GetUserData(user_data_store, user_id)} :
                /\ user_data_store' =
                      SetHistory(store, user_id, store[user_id].current_agent, << >>)
                /\ tasks' = [tasks EXCEPT ![t] =
                      [IdleTask EXCEPT
                          !.kind = "reset", !.user = user_id, !.pc = "replying",
                          !.agent = store[user_id].current_agent,
                          !.sent = << ResetNotice(store[user_id].current_agent) >>]]
    /\ Frame

\* button_callback, lines 85-96, up to the await of query.answer
ButtonCallback(t, user_id, agent_id) ==
    /\ Free(t)
    /\ events' = events + 1
    /\ IF user_id \notin ALLOWED_USERS
       THEN tasks' = [tasks EXCEPT ![t] =
                         [IdleTask EXCEPT !.kind = "button", !.user = user_id,
                                          !.pc = "replying",
                                          !.sent = << NotAuthorizedAlert >>]]
       ELSE tasks' = [tasks EXCEPT ![t] =
                         [IdleTask EXCEPT !.kind = "button", !.user = user_id,
                                          !.agent = agent_id, !.pc = "answered"]]
    /\ UNCHANGED user_data_store
    /\ Frame

\* button_callback, lines 99-114
ButtonSwitch(t) ==
    /\ tasks[t].pc = "answered"
    /\ user_data_store' =
          SelectAgent(user_data_store, tasks[t].user, tasks[t].agent)
    /\ tasks' = [tasks EXCEPT ![t].sent = << SwitchNotice(tasks[t].agent) >>,
                              ![t].pc = "replying"]
    /\ UNCHANGED events
    /\ Frame

\* the handler returns after its last await, or its exception reaches the
\* dispatcher, which has no error handler (main.py lines 16-29)
Return(t) ==
    /\ tasks[t].pc \in {"replying", "raised"}
    /\ tasks' = [tasks EXCEPT ![t] = IdleTask]
    /\ UNCHANGED << user_data_store, events >>
    /\ Frame

\* the store as three meal-plan requests that user 1 wrote to the chef leave
\* it, the chef selected; one request adds three entries to the history
\* (lines 252, 311, 312)
EarlierStore ==
    LET entries ==
            << Entry("user", "A Meal Plan, please"),
               Entry("user", MealPlanPrompt(4)),
               Entry("assistant", ReplyText("plain", 2, << >>, << 2 >>)) >>
    IN  (1 :> [NewUserData EXCEPT
                  !.current_agent = "chef",
                  !.conversations["chef"] = entries \o entries \o entries])

\* the bot starts with an empty store (utils.py line 9); the model also starts
\* from the store of a bot that has served user 1 before
InitBot ==
    /\ user_data_store \in {<< >>, EarlierStore}
    /\ tasks = [t \in Slots |-> IdleTask]
    /\ events = 0
    /\ pc = "bot"
    /\ template_plan = EmptyPlan
    /\ response_text = ""
    /\ extracted_recipes = << >>
    /\ structured_plan = EmptyPlan
    /\ message_parts = << >>
    /\ args = << >>
    /\ current_month = 1
    /\ servings = 4
    /\ meal_plan_prompt = << >>

NextBot ==
    \E t \in Slots :
        \/ \E user_id \in Users : MealPlanCommand(t, user_id)
        \/ MealPlanTyping(t)
        \/ MealPlanGenerate(t)
        \/ SendPart(t)
        \/ \E user_id \in Users, user_message \in UserMessages :
              HandleMessage(t, user_id, user_message)
        \/ ChatGenerate(t)
        \/ \E user_id \in Users : Reset(t, user_id)
        \/ \E user_id \in Users, agent_id \in ButtonChoices :
              ButtonCallback(t, user_id, agent_id)
        \/ ButtonSwitch(t)
        \/ Return(t)

SpecBot == InitBot /\ [][NextBot]_vars

\* start, lines 28-43; of the welcome, the greeting and the name of the
\* current agent
StartCommand(t, user_id) ==
    /\ Free(t)
    /\ events' = events + 1
    /\ \/ Refuse(t, "start", user_id)
       \/ /\ user_id \in ALLOWED_USERS
          /\ user_data_store' = GetUserData(user_data_store, user_id)
          /\ tasks' = [tasks EXCEPT ![t] =
                [IdleTask EXCEPT
                    !.kind = "start", !.user = user_id, !.pc = "replying",
                    !.sent =
                        << "Hi! I'm your AI assistant hub. Currently speaking with: "
                               \o AgentName(user_data_store'[user_id].current_agent) >>]]
    /\ Frame

\* help_command, lines 45-69; of help_text, the first line
HelpCommand(t, user_id) ==
    /\ Free(t)
    /\ events' = events + 1
    /\ \/ Refuse(t, "help", user_id)
       \/ /\ user_id \in ALLOWED_USERS
          /\ tasks' = [tasks EXCEPT ![t] =
                [IdleTask EXCEPT !.kind = "help", !.user = user_id,
                                 !.pc = "replying",
                                 !.sent = << "Available commands:" >>]]
          /\ UNCHANGED user_data_store
    /\ Frame

\* agents_command, lines 71-83
AgentsCommand(t, user_id) ==
    /\ Free(t)
    /\ events' = events + 1
    /\ \/ Refuse(t, "agents", user_id)
       \/ /\ user_id \in ALLOWED_USERS
          /\ tasks' = [tasks EXCEPT ![t] =
                [IdleTask EXCEPT !.kind = "agents", !.user = user_id,
                                 !.pc = "replying",
                                 !.sent = << "Choose an agent to talk to:" >>]]
          /\ UNCHANGED user_data_store
    /\ Frame

\* all handlers that main.py registers, lines 18-29
NextAll ==
    \/ NextBot
    \/ \E t \in Slots :
          \/ \E user_id \in Users : StartCommand(t, user_id)
          \/ \E user_id \in Users : HelpCommand(t, user_id)
          \/ \E user_id \in Users : AgentsCommand(t, user_id)

SpecAll == InitBot /\ [][NextAll]_vars

(***************************************************************************)
(* The prompt of /mealplan: the arguments of the command (handlers.py      *)
(* lines 164-186) and the season of ChefAgent (chef.py lines 125-198)      *)
(***************************************************************************)

MaxArgs == 2

StartsWith(s, prefix) ==
    Len(s) >= Len(prefix) /\ SubSeq(s, 1, Len(prefix)) = prefix

RECURSIVE WithoutUnderscores(_)
WithoutUnderscores(s) ==
    IF Len(s) = 0 THEN ""
    ELSE (IF Ch(s, 1) = "_" THEN "" ELSE Ch(s, 1))
             \o WithoutUnderscores(From(s, 2))

\* int(s) of Python for a string without white space: an optional sign, then
\* decimal digits that single underscores may separate; anything else raises
\* ValueError (ok is FALSE)
PyInt(s) ==
    LET signed == Ch(s, 1) \in {"+", "-"}
        body   == IF signed THEN From(s, 2) ELSE s
        wellFormed ==
            /\ Len(body) > 0
            /\ \A i \in 1..Len(body) : Ch(body, i) \in Digits \cup {"_"}
            /\ Ch(body, 1) \in Digits
            /\ Ch(body, Len(body)) \in Digits
            /\ \A i \in 1..(Len(body) - 1) :
                   ~(Ch(body, i) = "_" /\ Ch(body, i + 1) = "_")
    IN  IF ~wellFormed THEN [ok |-> FALSE, value |-> 0]
        ELSE [ok |-> TRUE,
              value |-> IF Ch(s, 1) = "-"
                        THEN 0 - IntOf(WithoutUnderscores(body))
                        ELSE IntOf(WithoutUnderscores(body))]

\* the branch of lines 171-179 an argument takes
ArgKind(arg) ==
    IF StartsWith(arg, "pref:") THEN "pref"
    ELSE IF StartsWith(arg, "avoid:") THEN "avoid"
    ELSE IF StartsWith(arg, "servings:") THEN "servings"
    ELSE "other"

\* the list that lines 165-174 collect for one prefix
Collected(arguments, kind, prefix) ==
    LET chosen == SelectSeq(arguments, LAMBDA arg : ArgKind(arg) = kind)
    IN  [i \in 1..Len(chosen) |-> From(chosen[i], Len(prefix) + 1)]

\* servings after the loop of lines 167-179: the last assignment of line 177
\* that did not raise, 4 if there is none
ServingsOf(arguments) ==
    LET assigned ==
            {i \in 1..Len(arguments) :
                /\ ArgKind(arguments[i]) = "servings"
                /\ PyInt(From(arguments[i], 10)).ok}
    IN  IF assigned = {} THEN 4
        ELSE PyInt(From(arguments[CHOOSE i \in assigned :
                                      \A j \in assigned : j <= i], 10)).value

\* get_current_season with the seasons of one month later, as if the tests
\* of lines 131, 138 and 145 were 4 <= .. <= 6, 7 <= .. <= 9, 10 <= .. <= 12
SeasonOfShifted(month) ==
    IF 4 <= month /\ month <= 6 THEN "Spring"
    ELSE IF 7 <= month /\ month <= 9 THEN "Summer"
    ELSE IF 10 <= month /\ month <= 12 THEN "Fall"
    ELSE "Winter"

\* the season of get_current_season, lines 131-152
SeasonOf(month) ==
    IF 3 <= month /\ month <= 5 THEN "Spring"
    ELSE IF 6 <= month /\ month <= 8 THEN "Summer"
    ELSE IF 9 <= month /\ month <= 11 THEN "Fall"
    ELSE "Winter"

\* the ingredient lists of lines 133-157
SeasonalIngredients(season) ==
    CASE season = "Spring" ->
             << "asparagus", "peas", "artichokes", "radishes", "rhubarb",
                "strawberries", "spinach", "arugula", "green onions",
                "new potatoes" >>
      [] season = "Summer" ->
             << "tomatoes", "zucchini", "eggplant", "corn", "berries",
                "peaches", "watermelon", "peppers", "cucumber",
                "green beans" >>
      [] season = "Fall" ->
             << "apples", "pumpkin", "squash", "sweet potatoes", "pears",
                "brussels sprouts", "cauliflower", "grapes", "kale",
                "mushrooms" >>
      [] season = "Winter" ->
             << "citrus", "winter squash", "potatoes", "carrots", "cabbage",
                "leeks", "onions", "turnips", "kale", "celery root" >>

\* get_current_season, lines 125-160
GetCurrentSeason(month) ==
    [season |-> SeasonOf(month),
     seasonal_ingredients |-> SeasonalIngredients(SeasonOf(month))]

\* ', '.join(items)
RECURSIVE JoinComma(_)
JoinComma(items) ==
    IF Len(items) = 0 THEN ""
    ELSE IF Len(items) = 1 THEN items[1]
    ELSE items[1] \o ", " \o JoinComma(Tail(items))

\* format_meal_plan_prompt, lines 162-198: the lines of the prompt that depend
\* on the arguments and on the month; the personalization text and the fixed
\* instructions that follow are left out
FormatMealPlanPrompt(preferences, restrictions, n, month) ==
    LET current == GetCurrentSeason(month)
    IN  << MealPlanPrompt(n),
           IF Len(preferences) > 0
           THEN "Additional preferences: " \o JoinComma(preferences) ELSE "",
           IF Len(restrictions) > 0
           THEN "Additional restrictions: " \o JoinComma(restrictions) ELSE "",
           "Current season: " \o current.season,
           "Seasonal ingredients to consider: "
               \o JoinComma(SubSeq(current.seasonal_ingredients, 1,
                                    IF Len(current.seasonal_ingredients) < 5
                                    THEN Len(current.seasonal_ingredients)
                                    ELSE 5)) >>

\* the arguments a user may type after /mealplan
ArgLib ==
    {"pref:italian", "avoid:nuts", "servings:6", "servings:2", "servings:0",
     "servings:-3", "servings:+2", "servings:1_0", "servings:abc",
     "servings:", "servings:2.5", "Servings:8"}

InitPrompt ==
    /\ user_data_store = << >>
    /\ tasks = [t \in Slots |-> IdleTask]
    /\ events = 0
    /\ pc = "command"
    /\ template_plan = EmptyPlan
    /\ response_text = ""
    /\ extracted_recipes = << >>
    /\ structured_plan = EmptyPlan
    /\ message_parts = << >>
    /\ args \in UNION {[1..n -> ArgLib] : n \in 0..MaxArgs}
    /\ current_month \in 1..12
    /\ servings = 4
    /\ meal_plan_prompt = << >>

\* meal_plan_command, lines 164-186: the arguments are read and the prompt is
\* built
BuildPrompt ==
    /\ pc = "command"
    /\ pc' = "prompted"
    /\ servings' = ServingsOf(args)
    /\ meal_plan_prompt' =
           FormatMealPlanPrompt(Collected(args, "pref", "pref:"),
                                Collected(args, "avoid", "avoid:"),
                                ServingsOf(args), current_month)
    /\ UNCHANGED << template_plan, response_text, extracted_recipes,
                    structured_plan, message_parts, user_data_store, tasks,
                    events, args, current_month >>

SpecPrompt == InitPrompt /\ [][BuildPrompt]_vars

(***************************************************************************)
(* Properties                                                              *)
(***************************************************************************)
Weekdays == {weekdays[i] : i \in 1..Len(weekdays)}

Parsed == pc # "reply"

DaysOf(recipes) == [i \in 1..Len(recipes) |-> recipes[i].day]

\* the entries of recipes for one day, in their order
ForDay(recipes, day) ==
    LET Test(r) == r.day = day IN SelectSeq(recipes, Test)

\* C1: the days of the recipes of a parsed plan are exactly Monday .. Friday,
\* each exactly once: no weekday is missing, none appears twice, and no other
\* day name appears.
C1_EachWeekdayOnce ==
    Parsed =>
        /\ \A d \in Weekdays : Len(ForDay(structured_plan.recipes, d)) = 1
        /\ \A i \in 1..Len(structured_plan.recipes) :
              structured_plan.recipes[i].day \in Weekdays

\* C2: the parser returns a plan for every reply, and the plan has exactly 5
\* recipes in the order Monday, Tuesday, Wednesday, Thursday, Friday.
C2_FiveRecipesInOrder ==
    Parsed => /\ Len(structured_plan.recipes) = 5
              /\ DaysOf(structured_plan.recipes) = weekdays

\* C3: every chunk returned by the formatter has at most 4096 characters.
C3_ChunksWithinLimit ==
    \A i \in 1..Len(message_parts) : Len(message_parts[i]) <= 4096

\* C4: round trip.  For a plan written out in the template (plain one-line
\* texts, every category with at least one item), the parser gives back the
\* summary, the shopping list with its categories and items in order, and
\* every field each recipe of the plan has.
C4_RoundTrip ==
    Parsed =>
        /\ structured_plan.summary = template_plan.summary
        /\ structured_plan.shopping_list = template_plan.shopping_list
        /\ Len(structured_plan.recipes) = Len(template_plan.recipes)
        /\ \A i \in 1..Len(template_plan.recipes) :
              \A key \in DOMAIN template_plan.recipes[i] :
                 /\ key \in DOMAIN structured_plan.recipes[i]
                 /\ structured_plan.recipes[i][key] = template_plan.recipes[i][key]

\* a rendered plan with a full summary, two categories, and a recipe that has
\* times, two ingredients and two steps has been parsed
C4_Witness ==
    /\ pc = "parsed"
    /\ Len(template_plan.summary) = 5
    /\ Len(template_plan.shopping_list) = 2
    /\ \E i \in 1..Len(template_plan.recipes) :
          /\ "prep_time" \in DOMAIN template_plan.recipes[i]
          /\ template_plan.recipes[i].prep_time = 120
          /\ Len(template_plan.recipes[i].ingredients) = 2
          /\ Len(template_plan.recipes[i].instructions) = 2
          /\ structured_plan.recipes[i] = template_plan.recipes[i]

\* the line occurs in the chunk
Contains(chunk, line) == Find(chunk, line, 1) > 0

\* the chunk holds the header of the recipe, its time and servings lines, its
\* ingredients and its instructions
HoldsRecipe(chunk, recipe) ==
    /\ Contains(chunk, "## " \o recipe.day \o ": "
                           \o Get(recipe, "name", "Unnamed Recipe"))
    /\ "prep_time" \in DOMAIN recipe =>
          Contains(chunk, "Preparation Time: " \o Str(recipe.prep_time) \o " minutes")
    /\ "cook_time" \in DOMAIN recipe =>
          Contains(chunk, "Cooking Time: " \o Str(recipe.cook_time) \o " minutes")
    /\ "servings" \in DOMAIN recipe =>
          Contains(chunk, "Servings: " \o Str(recipe.servings))
    /\ "ingredients" \in DOMAIN recipe =>
          /\ Contains(chunk, "### Ingredients:")
          /\ \A j \in 1..Len(recipe.ingredients) :
                Contains(chunk, "- " \o recipe.ingredients[j])
    /\ "instructions" \in DOMAIN recipe =>
          /\ Contains(chunk, "### Instructions:")
          /\ \A j \in 1..Len(recipe.instructions) :
                Contains(chunk, Str(j) \o ". " \o recipe.instructions[j])

\* C5: each recipe of the plan is rendered entirely inside one chunk: some
\* chunk holds its header, its time and servings lines, its ingredients and
\* its instructions, and there is one chunk per recipe after the two leading
\* chunks.
C5_RecipeInOneChunk ==
    pc = "formatted" =>
        /\ Len(message_parts) = 2 + Len(structured_plan.recipes)
        /\ \A i \in 1..Len(structured_plan.recipes) :
              \E c \in 3..Len(message_parts) :
                 HoldsRecipe(message_parts[c], structured_plan.recipes[i])

\* a plan whose Monday recipe has ingredients and instructions was formatted
C5_Witness ==
    /\ pc = "formatted"
    /\ \E i \in 1..Len(structured_plan.recipes) :
          /\ structured_plan.recipes[i].day = "Monday"
          /\ "ingredients" \in DOMAIN structured_plan.recipes[i]
          /\ "instructions" \in DOMAIN structured_plan.recipes[i]
          /\ Len(structured_plan.recipes[i].ingredients) = 2
          /\ Len(structured_plan.recipes[i].instructions) = 2

\* the recipe the normalization adds for a day, with the given name
Synthesized(day, name) ==
    [day |-> day, name |-> name, prep_time |-> 0, cook_time |-> 0,
     servings |-> 0, ingredients |-> << >>,
     instructions |-> << "Recipe details not available" >>]

\* name is the meal of the first summary entry of the day, or the default
IsNameFor(name, summary, day) ==
    IF \E i \in 1..Len(summary) : summary[i].day = day
    THEN \E i \in 1..Len(summary) :
            /\ summary[i].day = day
            /\ \A j \in 1..(i - 1) : summary[j].day # day
            /\ name = summary[i].meal
    ELSE name = "Meal not specified"

\* C6: normalization.  For each weekday without an extracted recipe the plan
\* has exactly one recipe, with times and servings 0, no ingredients, the
\* instructions ["Recipe details not available"], and as name the meal of the
\* first summary entry of that day, or "Meal not specified" if the summary has
\* none; the extracted recipes of every day are in the plan unchanged.
C6_Normalization ==
    Parsed =>
        /\ \A d \in Weekdays :
              ForDay(extracted_recipes, d) = << >> =>
                 /\ Len(ForDay(structured_plan.recipes, d)) = 1
                 /\ \E name \in {structured_plan.recipes[i].name :
                                    i \in 1..Len(structured_plan.recipes)} :
                       /\ IsNameFor(name, structured_plan.summary, d)
                       /\ ForDay(structured_plan.recipes, d)
                             = << Synthesized(d, name) >>
        /\ \A i \in 1..Len(extracted_recipes) :
              ForDay(structured_plan.recipes, extracted_recipes[i].day)
                 = ForDay(extracted_recipes, extracted_recipes[i].day)

\* a reply whose summary names Monday twice and Tuesday once, with no recipe
\* block for either and none for Wednesday, has been parsed
C6_Witness ==
    /\ pc = "parsed"
    /\ Len(ForDay(structured_plan.summary, "Monday")) = 2
    /\ ForDay(extracted_recipes, "Monday") = << >>
    /\ ForDay(structured_plan.summary, "Wednesday") = << >>
    /\ ForDay(extracted_recipes, "Wednesday") = << >>
    /\ Len(extracted_recipes) > 0
    /\ ForDay(structured_plan.recipes, "Monday") = << Synthesized("Monday", "Tacos") >>

ScenarioB == "Monday: Tacos\nTuesday: Soup"

NamesOf(recipes) == [i \in 1..Len(recipes) |-> recipes[i].name]

\* C7 as stated: for the reply of the two lines "Monday: Tacos" and
\* "Tuesday: Soup" without headers the summary has the 2 entries, the
\* shopping list is empty, and of the 5 recipes Monday and Tuesday are named
\* "Tacos" and "Soup" and the other three "Meal not specified".
C7_ScenarioB_AsStated ==
    (Parsed /\ response_text = ScenarioB) =>
        /\ structured_plan.summary
              = << [day |-> "Monday", meal |-> "Tacos"],
                   [day |-> "Tuesday", meal |-> "Soup"] >>
        /\ structured_plan.shopping_list = << >>
        /\ NamesOf(structured_plan.recipes)
              = << "Tacos", "Soup", "Meal not specified",
                   "Meal not specified", "Meal not specified" >>

\* C7 amended: for that reply the summary is empty (no MEAL PLAN SUMMARY
\* header, so no summary region), the shopping list is empty, and the 5
\* recipes, Monday to Friday, are all named "Meal not specified".
C7_ScenarioB ==
    (Parsed /\ response_text = ScenarioB) =>
        /\ structured_plan.summary = << >>
        /\ structured_plan.shopping_list = << >>
        /\ DaysOf(structured_plan.recipes) = weekdays
        /\ NamesOf(structured_plan.recipes)
              = << "Meal not specified", "Meal not specified",
                   "Meal not specified", "Meal not specified",
                   "Meal not specified" >>

C7_Witness ==
    /\ pc = "parsed"
    /\ response_text = ScenarioB
    /\ Len(structured_plan.recipes) = 5

\* the recipes the two Monday blocks of the replies stand for
StewRecipe ==
    [day |-> "Monday", name |-> "Stew", prep_time |-> 10, cook_time |-> 25,
     servings |-> 4]

TacosRecipe ==
    [day |-> "Monday", name |-> "Tacos", ingredients |-> << "beans", "corn" >>,
     instructions |-> << "Fry beans", "Serve" >>]

\* the Monday block that comes first in the text
FirstMondayBlock(text) ==
    LET a == Find(text, "## Monday: Stew", 1)
        b == Find(text, "## Monday: Tacos", 1)
    IN  IF a > 0 /\ (b = 0 \/ a < b) THEN StewRecipe ELSE TacosRecipe

\* C8: when two Monday blocks are found in the recipes region, the first
\* Monday recipe of the returned plan is the first block of the text, with
\* that block's name and fields (the later block follows it in the plan).
C8_FirstMondayBlockFirst ==
    (Parsed /\ Len(ForDay(extracted_recipes, "Monday")) >= 2) =>
        /\ structured_plan.recipes[1] = FirstMondayBlock(response_text)
        /\ ForDay(structured_plan.recipes, "Monday")[1]
              = FirstMondayBlock(response_text)

\* a reply with the Tacos block before the Stew block has been parsed
C8_Witness ==
    /\ pc = "parsed"
    /\ Len(ForDay(extracted_recipes, "Monday")) = 2
    /\ structured_plan.recipes[1] = TacosRecipe
    /\ structured_plan.recipes[2].day = "Monday"
    /\ structured_plan.recipes[2].name # "Tacos"

\* C9: for the empty reply the summary and the shopping list are empty and
\* the plan has exactly 5 recipes, each named "Meal not specified".
C9_EmptyReply ==
    (Parsed /\ response_text = "") =>
        /\ structured_plan.summary = << >>
        /\ structured_plan.shopping_list = << >>
        /\ Len(structured_plan.recipes) = 5
        /\ \A i \in 1..Len(structured_plan.recipes) :
              structured_plan.recipes[i].name = "Meal not specified"

C9_Witness ==
    /\ pc = "formatted"
    /\ response_text = ""
    /\ DaysOf(structured_plan.recipes) = weekdays

\* C10: the summary of a parsed plan has at most 5 entries, and the day of
\* each entry is one of Monday .. Friday.
C10_SummaryWeekdaysOnly ==
    Parsed =>
        /\ Len(structured_plan.summary) <= 5
        /\ \A i \in 1..Len(structured_plan.summary) :
              structured_plan.summary[i].day \in Weekdays

\* C11 as stated: every recipe of the parsed plan has an instructions list,
\* and a recipe extracted from a block has the list
\* ["Recipe details not available"] unless its instructions were extracted.
C11_InstructionsAlways ==
    Parsed =>
        \A i \in 1..Len(structured_plan.recipes) :
            "instructions" \in DOMAIN structured_plan.recipes[i]

\* the recipe blocks of the replies that have a "### Instructions:" header
\* are the blocks named Tacos
HasInstructionsHeader(recipe) == Get(recipe, "name", "") = "Tacos"

\* C11 amended: a recipe extracted from a block has the key instructions
\* exactly when the block has a "### Instructions:" header, and then its list
\* holds the numbered lines extracted; the recipes added for weekdays without
\* a block carry the list ["Recipe details not available"].
C11_InstructionsOmitted ==
    Parsed =>
        /\ \A i \in 1..Len(extracted_recipes) :
              /\ "instructions" \in DOMAIN extracted_recipes[i]
                    <=> HasInstructionsHeader(extracted_recipes[i])
              /\ \E j \in 1..Len(structured_plan.recipes) :
                    structured_plan.recipes[j] = extracted_recipes[i]
        /\ \A d \in Weekdays :
              ForDay(extracted_recipes, d) = << >> =>
                 \A j \in 1..Len(structured_plan.recipes) :
                    structured_plan.recipes[j].day = d =>
                       structured_plan.recipes[j].instructions
                          = << "Recipe details not available" >>

\* a plan with the Stew block, which has no instructions, has been parsed: its
\* recipe has no key instructions, next to a placeholder that has the list
C11_Witness ==
    /\ pc = "parsed"
    /\ \E j \in 1..Len(structured_plan.recipes) :
          /\ structured_plan.recipes[j] = StewRecipe
          /\ "instructions" \notin DOMAIN structured_plan.recipes[j]
    /\ \E j \in 1..Len(structured_plan.recipes) :
          structured_plan.recipes[j] = Synthesized("Tuesday", "Soup")

(***************************************************************************)
(* C12: fallback header search                                             *)
(***************************************************************************)
\* the mixed-case replies whose summary body has the line "Monday: ..."
MixedCaseWithMonday ==
    {ReplyText("mixedcase", n, shopping, blocks) :
        n \in SummaryCounts \ {0}, shopping \in ShoppingBodies,
        blocks \in BlockChoices(1)}

\* each reply with the first and third header only, paired with the number
\* of its summary lines and the number of its recipe blocks
PartialReplyCounts ==
    {<< ReplyText("partial", n, shopping, blocks), n, Len(blocks) >> :
        n \in SummaryCounts, shopping \in ShoppingBodies,
        blocks \in BlockChoices(MaxBlocks)}

\* C12 as stated: in fallback mode the three header phrases are found
\* whatever their case, so a reply with the header "Meal Plan Summary"
\* followed by the line "Monday: ..." yields a summary entry for Monday, and
\* each region ends at the next header, so the summary region of a reply
\* without a SHOPPING LIST header ends at DETAILED RECIPES and yields one
\* entry per summary line.
C12_HeadersAnyCase ==
    Parsed =>
        /\ response_text \in MixedCaseWithMonday =>
              \E i \in 1..Len(structured_plan.summary) :
                  structured_plan.summary[i].day = "Monday"
        /\ \A p \in PartialReplyCounts :
              response_text = p[1] => Len(structured_plan.summary) = p[2]

\* C12 amended: in fallback mode the header phrases are found only when
\* written in capitals: a reply with the headers "Meal Plan Summary",
\* "Shopping List" and "Detailed Recipes" yields no summary entry, no
\* shopping category and no extracted recipe.  The summary region runs from
\* MEAL PLAN SUMMARY to SHOPPING LIST, or to the end of the text when that
\* header is missing: then it runs over the DETAILED RECIPES header and
\* every recipe header "## <day>: <name>" yields one more summary entry.
C12_HeadersCaseSensitive ==
    Parsed =>
        /\ response_text \in MixedCaseReplies =>
              /\ structured_plan.summary = << >>
              /\ structured_plan.shopping_list = << >>
              /\ extracted_recipes = << >>
        /\ \A p \in PartialReplyCounts :
              response_text = p[1] =>
                  Len(structured_plan.summary) = p[2] + p[3]

\* a mixed-case reply with a Monday line parsed, and a reply without the
\* SHOPPING LIST header parsed with summary lines and recipe blocks
C12_Witness ==
    /\ pc = "parsed"
    /\ \/ /\ response_text \in MixedCaseWithMonday
          /\ Contains(response_text, "## Monday: ")
       \/ \E p \in PartialReplyCounts :
              response_text = p[1] /\ p[2] > 0 /\ p[3] > 0

(***************************************************************************)
(* C13: the regions of structured mode                                     *)
(***************************************************************************)
\* the text of a header-search match without the `# N. ` marker of the next
\* section at its end, stripped
UnderHeader(text) ==
    Bind(First(1, Len(text), LAMBDA j : SectionHeaderEnd(text, j) = Len(text) + 1),
         LAMBDA i : IF i = 0 THEN Strip(text) ELSE Strip(SubSeq(text, 1, i - 1)))

\* the plan of structured mode, extracted from the regions that the header
\* search of fallback mode selects
HeaderSearchPlan(text) ==
    [summary |->
        IfFound(RegionUntil(text, "MEAL PLAN SUMMARY", "SHOPPING LIST"),
                LAMBDA region : ExtractSummary(UnderHeader(region))),
     shopping_list |->
        IfFound(RegionUntil(text, "SHOPPING LIST", "DETAILED RECIPES"),
                LAMBDA region : ExtractShoppingList(UnderHeader(region), FALSE)),
     recipes |->
        IfFound(RegionToEnd(text, "DETAILED RECIPES"),
                LAMBDA region : StructuredRecipes(UnderHeader(region)))]

StructuredMode == Len(SplitSections(response_text)) >= 4

\* C13: whenever the `# N. ` split yields at least 4 segments, the summary,
\* the shopping list and the recipes are extracted from the text under the
\* headers MEAL PLAN SUMMARY, SHOPPING LIST and DETAILED RECIPES, i.e. from
\* the regions the header search selects, also when the sections are in
\* another order, when there are more `# N. ` headers, or when `# N. ` occurs
\* inside a line.
C13_SameRegions ==
    (Parsed /\ StructuredMode) =>
        \E plan \in {HeaderSearchPlan(response_text)} :
            /\ structured_plan.summary = plan.summary
            /\ structured_plan.shopping_list = plan.shopping_list
            /\ extracted_recipes = plan.recipes

\* C13 for the replies whose three numbered headers are in the order of the
\* template, with no other `# N. ` in the text
C13_SameRegionsTemplateOrder ==
    (Parsed /\ StructuredMode /\ response_text \notin ShiftedReplies) =>
        \E plan \in {HeaderSearchPlan(response_text)} :
            /\ structured_plan.summary = plan.summary
            /\ structured_plan.shopping_list = plan.shopping_list
            /\ extracted_recipes = plan.recipes

(***************************************************************************)
(* C14: the keys of the shopping list                                      *)
(***************************************************************************)
\* the reply has the header line "## <category>" directly followed by a
\* bulleted line
HeaderThenBullet(text, category) ==
    \/ Contains(text, "## " \o category \o "\n-")
    \/ Contains(text, "## " \o category \o "\n*")

\* C14: a category is a key of the parsed shopping list only if its `##`
\* header line is directly followed by a bulleted item line, no key is the
\* empty string, and the keys are in the order in which the categories occur
\* in the text.
C14_CategoryKeys ==
    Parsed =>
        \E list \in {structured_plan.shopping_list} :
            /\ \A i \in 1..Len(list) :
                  /\ list[i].category # ""
                  /\ HeaderThenBullet(response_text, list[i].category)
            /\ \A i, j \in 1..Len(list) :
                  i < j => Find(response_text, "## " \o list[i].category, 1)
                              < Find(response_text, "## " \o list[j].category, 1)

ChunkRank(chunk) ==
    IF \E i \in 1..Len(weekdays) : At(chunk, 1, "## " \o weekdays[i] \o ": ")
    THEN (CHOOSE i \in 1..Len(weekdays) :
              At(chunk, 1, "## " \o weekdays[i] \o ": ")) - 1
    ELSE 999

\* C16: for a plan with recipes the formatter returns at least 2 chunks; the
\* first chunk is the summary (its "day: meal" lines, or the line "No meal
\* summary available." when there are none) followed by the shopping list
\* (its categories, or the line "No shopping list available."), without any
\* recipe; the recipes follow one per chunk, in the order Monday to Friday
\* whatever their order in the plan, days that are no weekdays last.
C16_ChunkLayout ==
    (pc = "formatted" /\ Len(structured_plan.recipes) > 0) =>
        /\ Len(message_parts) >= 2
        /\ At(message_parts[1], 1, "# 1. MEAL PLAN SUMMARY\n")
        /\ Contains(message_parts[1], "\n\n# 2. SHOPPING LIST\n")
        /\ Contains(message_parts[1], "\nNo meal summary available.\n")
              <=> structured_plan.summary = << >>
        /\ \A i \in 1..Len(structured_plan.summary) :
              Contains(message_parts[1],
                       "\n" \o structured_plan.summary[i].day \o ": "
                            \o structured_plan.summary[i].meal \o "\n")
        /\ Contains(message_parts[1], "\nNo shopping list available.\n")
              <=> structured_plan.shopping_list = << >>
        /\ \A i \in 1..Len(structured_plan.shopping_list) :
              Contains(message_parts[1],
                       "\n## " \o structured_plan.shopping_list[i].category \o "\n")
        /\ ~ Contains(message_parts[1], "DETAILED RECIPES")
        /\ Len(message_parts) = 2 + Len(structured_plan.recipes)
        /\ \A i \in 1..Len(structured_plan.recipes) :
              \E c \in 3..Len(message_parts) :
                  At(message_parts[c], 1,
                     "## " \o Get(structured_plan.recipes[i], "day", "Day") \o ": "
                           \o Get(structured_plan.recipes[i], "name", "Unnamed Recipe")
                           \o "\n")
        /\ \A c, e \in 3..Len(message_parts) :
              c < e => ChunkRank(message_parts[c]) <= ChunkRank(message_parts[e])

\* a plan with the Friday recipe before the Monday recipe, an empty summary
\* and an empty shopping list has been formatted
C16_Witness ==
    /\ pc = "formatted"
    /\ structured_plan.summary = << >>
    /\ structured_plan.shopping_list = << >>
    /\ Len(structured_plan.recipes) = 3
    /\ Get(structured_plan.recipes[1], "day", "") = "Friday"
    /\ Get(structured_plan.recipes[3], "day", "") = "Monday"
    /\ ChunkRank(message_parts[3]) = 0

(***************************************************************************)
(* C17 .. C20: the handlers                                                *)
(***************************************************************************)
\* C17: whenever the gateway call of a request fails - /mealplan, a meal-plan
\* request written to the chef, or plain chat - the gateway has been called
\* once for the request and the last message sent to the user is an apology.
C17_ApologyOnGatewayFailure ==
    \A t \in Slots :
        tasks[t].failed =>
            /\ tasks[t].calls = 1
            /\ Len(tasks[t].sent) > 0
            /\ tasks[t].sent[Len(tasks[t].sent)] \in {MealPlanApology, ChatApology}

\* the chunk messages a handler has sent: for /mealplan the messages after the
\* notice that the plan is being prepared
ChunksSent(task) == IF task.kind = "mealplan" THEN Tail(task.sent) ELSE task.sent

\* C18: while a handler sends a meal plan, the messages it has sent are the
\* first chunks of the formatter's list for the reply, in the formatter's
\* order, each once; and when its loop has passed the last part, they are all
\* the chunks.
C18_ChunksInOrder ==
    \A t \in Slots :
        tasks[t].pc = "sending" =>
            \E chunks \in {MessageParts[tasks[t].reply]} :
                /\ Len(ChunksSent(tasks[t])) >= 1
                /\ Len(ChunksSent(tasks[t])) <= Len(chunks)
                /\ ChunksSent(tasks[t])
                      = SubSeq(chunks, 1, Len(ChunksSent(tasks[t])))
                /\ tasks[t].next > Len(tasks[t].parts) =>
                      ChunksSent(tasks[t]) = chunks

\* two handlers send a meal plan at the same time: one has sent all its 7
\* chunks, the other some of them
C18_Witness ==
    \E t, s \in Slots :
        /\ tasks[t].pc = "sending" /\ tasks[s].pc = "sending"
        /\ tasks[t].kind = "mealplan" /\ tasks[s].kind = "message"
        /\ Len(tasks[t].parts) = 7
        /\ tasks[t].next = 8
        /\ tasks[s].next = 4

\* the store entry of a user, if there is one
EntryOf(store, user_id) == {store[u] : u \in DOMAIN store \cap {user_id}}

\* the user whose handler takes the step: the one slot that changes
Acting(t) ==
    /\ tasks'[t] # tasks[t]
    /\ \A s \in Slots \ {t} : tasks'[s] = tasks[s]

ActingUser(t) == IF tasks[t].pc = "idle" THEN tasks'[t].user ELSE tasks[t].user

\* C19: under any interleaving of handlers of different users, a step of a
\* handler of user u leaves the store entry of every other user - the current
\* agent and all histories - as it was.
C19_OtherUsersUntouched ==
    [][\A t \in Slots :
          Acting(t) =>
              \A other \in Users \ {ActingUser(t)} :
                  EntryOf(user_data_store', other) = EntryOf(user_data_store, other)]_vars

\* handlers of user 1 and of user 2 are in flight together, and both users
\* have an entry with a history
C19_Witness ==
    \E t, s \in Slots :
        /\ tasks[t].user = 1 /\ tasks[s].user = 2
        /\ tasks[t].pc = "sending" /\ tasks[s].pc = "chat_typing"
        /\ 1 \in DOMAIN user_data_store /\ 2 \in DOMAIN user_data_store
        /\ Len(user_data_store[1].conversations["chef"]) >= 3
        /\ Len(user_data_store[2].conversations["default"]) = 1

\* C20: no history of any user and agent in the store holds more than
\* MAX_HISTORY_LENGTH messages.
C20_HistoryBounded ==
    \A u \in DOMAIN user_data_store :
        \A a \in DOMAIN user_data_store[u].conversations :
            Len(user_data_store[u].conversations[a]) <= MAX_HISTORY_LENGTH

(***************************************************************************)
(* C21, C22: the prompt of /mealplan                                       *)
(***************************************************************************)

\* C21: the servings value that /mealplan hands to the prompt builder is a
\* positive integer, whatever the arguments of the command are.
C21_ServingsPositive ==
    pc = "prompted" => servings > 0

\* the season the mapping of months names
C22_Season(month) ==
    CASE month \in {3, 4, 5} -> "Spring"
      [] month \in {6, 7, 8} -> "Summer"
      [] month \in {9, 10, 11} -> "Fall"
      [] month \in {12, 1, 2} -> "Winter"

\* C22: for every month 1..12 the prompt names the season of the mapping
\* 3-5 Spring, 6-8 Summer, 9-11 Fall, 12-2 Winter; the season has a list of at
\* least 10 ingredients and the prompt lists the first 5 of them.
C22_SeasonOfMonth ==
    pc = "prompted" =>
        LET current == GetCurrentSeason(current_month)
        IN  /\ current.season = C22_Season(current_month)
            /\ meal_plan_prompt[4] = "Current season: " \o C22_Season(current_month)
            /\ current.seasonal_ingredients
                   = SeasonalIngredients(C22_Season(current_month))
            /\ Len(current.seasonal_ingredients) >= 10
            /\ meal_plan_prompt[5] =
                   "Seasonal ingredients to consider: "
                       \o JoinComma(SubSeq(current.seasonal_ingredients, 1, 5))

C22_Witness ==
    /\ pc = "prompted"
    /\ current_month = 12
    /\ meal_plan_prompt[4] = "Current season: Winter"
    /\ meal_plan_prompt[5] =
           "Seasonal ingredients to consider: citrus, winter squash, potatoes, carrots, cabbage"

(***************************************************************************)
(* C23 .. C28: histories and profiles                                      *)
(***************************************************************************)

\* the handler in slot t builds the message list of a plain-chat request in
\* this step
BuildsChatRequest(t) ==
    tasks[t].pc = "idle" /\ tasks'[t].pc = "chat_typing"

\* C23: the message list of a plain-chat request is the system prompt of the
\* user's current profile followed by the last entries, at most
\* MAX_HISTORY_LENGTH, of that profile's history in stored order, the last one
\* being the user message the handler has just appended; the list is not
\* changed before the gateway is called.
C23_ChatRequest ==
    [][\A t \in Slots :
          /\ BuildsChatRequest(t) =>
                LET task     == tasks'[t]
                    agent_id == user_data_store'[task.user].current_agent
                    history  == user_data_store'[task.user].conversations[agent_id]
                    earlier  == HistoryOf(GetUserData(user_data_store, task.user),
                                          task.user, agent_id)
                    sent     == Tail(task.messages)
                IN  /\ task.agent = agent_id
                    /\ task.messages[1] = Entry("system", AgentName(agent_id))
                    /\ Len(sent) =
                           (IF Len(history) <= MAX_HISTORY_LENGTH
                            THEN Len(history) ELSE MAX_HISTORY_LENGTH)
                    /\ sent = SubSeq(history, Len(history) - Len(sent) + 1,
                                     Len(history))
                    /\ Len(history) = Len(earlier) + 1
                    /\ SubSeq(history, 1, Len(earlier)) = earlier
                    /\ sent[Len(sent)] = history[Len(history)]
                    /\ sent[Len(sent)].role = "user"
                    /\ sent[Len(sent)].content \in UserMessages
          /\ tasks[t].pc = "chat_typing" =>
                tasks'[t].messages = tasks[t].messages]_vars

\* a request that leaves entries of a longer history out
C23_Witness ==
    \E t \in Slots :
        /\ tasks[t].pc = "chat_typing"
        /\ Len(tasks[t].messages) = MAX_HISTORY_LENGTH + 1
        /\ Len(user_data_store[tasks[t].user].conversations[tasks[t].agent])
               > MAX_HISTORY_LENGTH
        /\ tasks[t].messages[Len(tasks[t].messages)] = Entry("user", "hello")

\* the handler in slot t is a /reset of an authorized user that starts, and
\* so takes effect, in this step
Resets(t) ==
    /\ tasks[t].pc = "idle"
    /\ tasks'[t].kind = "reset"
    /\ tasks'[t].user \in ALLOWED_USERS

\* C24: /reset of an authorized user empties the history of the user's current
\* profile; the current profile, the histories of the user's other profiles
\* and the entries of all other users stay as they were (a user without an
\* entry has the entry that get_user_data makes).
C24_ResetFrame ==
    [][\A t \in Slots :
          Resets(t) =>
              LET user_id == tasks'[t].user
                  before  == GetUserData(user_data_store, user_id)[user_id]
                  after   == user_data_store'[user_id]
              IN  /\ after.current_agent = before.current_agent
                  /\ DOMAIN after.conversations = DOMAIN before.conversations
                  /\ after.conversations[before.current_agent] = << >>
                  /\ \A a \in DOMAIN before.conversations \ {before.current_agent} :
                         after.conversations[a] = before.conversations[a]
                  /\ \A other \in Users \ {user_id} :
                         EntryOf(user_data_store', other)
                             = EntryOf(user_data_store, other)]_vars

\* user 1, whose chef history held the entries of earlier plans, has reset it
\* as the first update
C24_Witness ==
    \E t \in Slots :
        /\ tasks[t].kind = "reset" /\ tasks[t].user = 1
        /\ tasks[t].pc = "replying" /\ tasks[t].agent = "chef"
        /\ events = 1
        /\ user_data_store[1].current_agent = "chef"
        /\ \A a \in AgentIds : user_data_store[1].conversations[a] = << >>

\* the current agent of a user in a store, "" without an entry
CurrentAgentOf(store, user_id) ==
    IF user_id \in DOMAIN store THEN store[user_id].current_agent ELSE ""

\* C25: a /mealplan of an authorized user makes "chef" the user's current
\* profile; no later step of that handler, with the gateway failing or not,
\* changes the current profile or a history of another profile of the user;
\* and a current profile "chef" changes only in the step of a button press of
\* that user that selects a profile.
C25_MealPlanProfile ==
    [][\A t \in Slots :
          /\ (/\ tasks[t].pc = "idle"
              /\ tasks'[t].kind = "mealplan"
              /\ tasks'[t].user \in ALLOWED_USERS)
                => CurrentAgentOf(user_data_store', tasks'[t].user) = "chef"
          /\ (Acting(t) /\ "mealplan" \in {tasks[t].kind, tasks'[t].kind}
                        /\ ActingUser(t) \in ALLOWED_USERS)
                => LET user_id == ActingUser(t)
                       before  == GetUserData(user_data_store, user_id)[user_id]
                       after   == user_data_store'[user_id]
                   IN  /\ after.current_agent \in {"chef", before.current_agent}
                       /\ \A a \in AgentIds \ {"chef"} :
                              after.conversations[a] = before.conversations[a]
          /\ (/\ Acting(t)
              /\ CurrentAgentOf(user_data_store, ActingUser(t)) = "chef"
              /\ CurrentAgentOf(user_data_store', ActingUser(t)) # "chef")
                => /\ tasks[t].kind = "button"
                   /\ tasks[t].pc = "answered"
                   /\ tasks[t].agent # "chef"
                   /\ CurrentAgentOf(user_data_store', ActingUser(t)) = tasks[t].agent]_vars

\* the gateway has failed for the /mealplan of user 2, who had no entry, and
\* the chef is the current profile
C25_Witness ==
    \E t \in Slots :
        /\ tasks[t].kind = "mealplan" /\ tasks[t].user = 2
        /\ tasks[t].failed
        /\ user_data_store[2].current_agent = "chef"
        /\ \A a \in AgentIds : user_data_store[2].conversations[a] = << >>

\* every assistant entry of a history comes right after a user entry
Paired(history) ==
    \A i \in 1..Len(history) :
        history[i].role = "assistant" => i > 1 /\ history[i - 1].role = "user"

\* C26: in every reachable state, with the handlers of one user interleaved at
\* their awaits, every assistant entry of every history is immediately
\* preceded by a user entry of that history.
C26_AssistantAfterUser ==
    \A u \in DOMAIN user_data_store :
        \A a \in DOMAIN user_data_store[u].conversations :
            Paired(user_data_store[u].conversations[a])

\* no other handler of the acting user is in flight
Alone(t) ==
    \A s \in Slots \ {t} :
        tasks[s].pc = "idle" \/ tasks[s].user # ActingUser(t)

\* the histories of a user are paired, and a chat request of the user that
\* waits for the gateway has its user message at the end of its history
PairedFor(store, running, user_id) ==
    user_id \in DOMAIN store =>
        /\ \A a \in DOMAIN store[user_id].conversations :
               Paired(store[user_id].conversations[a])
        /\ \A s \in Slots :
               (running[s].pc = "chat_typing" /\ running[s].user = user_id) =>
                   LET history == HistoryOf(store, user_id, running[s].agent)
                   IN  Len(history) > 0 /\ history[Len(history)].role = "user"

\* C26 as the code has it: a step of a handler that runs alone for its user
\* keeps the user's histories paired; the reply of a meal-plan path is
\* appended in one step with its prompt, so it always follows a user entry.
C26_PairedWhenAlone ==
    [][\A t \in Slots :
          /\ (Acting(t) /\ Alone(t)
                /\ PairedFor(user_data_store, tasks, ActingUser(t)))
                => PairedFor(user_data_store', tasks', ActingUser(t))
          /\ (Acting(t) /\ tasks'[t].reply \in MealPlanReplies
                        /\ tasks[t].reply = "")
                => LET history == user_data_store'[ActingUser(t)].conversations["chef"]
                   IN  /\ Len(history) >= 2
                       /\ history[Len(history)] = Entry("assistant", tasks'[t].reply)
                       /\ history[Len(history) - 1].role = "user"]_vars

\* a chat handler that ran alone has appended its reply after the message
C26_Witness ==
    \E t \in Slots :
        /\ tasks[t].kind = "message" /\ tasks[t].pc = "replying"
        /\ tasks[t].reply \in ChatReplies
        /\ \A s \in Slots \ {t} : tasks[s].pc = "idle"
        /\ events = 1
        /\ LET history == user_data_store[tasks[t].user].conversations[tasks[t].agent]
           IN  /\ Len(history) >= 2
               /\ history[Len(history)] = Entry("assistant", tasks[t].reply)
               /\ history[Len(history) - 1] = Entry("user", "hello")

\* C27: a handler started by a user who is not in the allow-list, for any
\* command, text message or button press, leaves the store as it was, does not
\* call the gateway, sends the not-authorized notice and nothing else, and
\* then returns.
C27_UnauthorizedNoEffect ==
    [][\A t \in Slots :
          (Acting(t) /\ ActingUser(t) \notin ALLOWED_USERS) =>
              /\ user_data_store' = user_data_store
              /\ tasks[t].pc = "idle" =>
                     /\ tasks'[t].pc = "replying"
                     /\ tasks'[t].calls = 0
                     /\ tasks'[t].sent =
                            << IF tasks'[t].kind = "button"
                               THEN NotAuthorizedAlert ELSE NotAuthorizedNotice >>
              /\ tasks[t].pc # "idle" => tasks'[t] = IdleTask]_vars

\* user 3 is refused a /start while user 1 has an entry with earlier plans;
\* user 3 has no entry
C27_Witness ==
    \E t \in Slots :
        /\ tasks[t].kind = "start" /\ tasks[t].user = 3
        /\ tasks[t].pc = "replying"
        /\ tasks[t].sent = << NotAuthorizedNotice >>
        /\ DOMAIN user_data_store = {1}
        /\ Len(user_data_store[1].conversations["chef"]) > 0

\* the gateway call of the plain-chat handler in slot t fails in this step
ChatFails(t) ==
    tasks[t].pc = "chat_typing" /\ tasks'[t].failed

\* C28: the step in which the gateway fails for a plain-chat request leaves
\* the whole store as it was - the user's message stays the last entry of the
\* profile's history when it was the last entry, no assistant entry is added,
\* the current profile and all other histories are unchanged - and sends the
\* apology; a later plain-chat request of the profile then holds the entry
\* that ended the history, so the failed message is sent again.
C28_FailedChat ==
    [][\A t \in Slots :
          /\ ChatFails(t) =>
                /\ user_data_store' = user_data_store
                /\ tasks'[t].calls = tasks[t].calls + 1
                /\ tasks'[t].sent = Append(tasks[t].sent, ChatApology)
                /\ tasks'[t].pc = "replying"
          /\ BuildsChatRequest(t) =>
                LET user_id == tasks'[t].user
                    earlier == HistoryOf(GetUserData(user_data_store, user_id),
                                         user_id, tasks'[t].agent)
                    request == tasks'[t].messages
                IN  Len(earlier) > 0 =>
                        /\ Len(request) >= 3
                        /\ request[Len(request) - 1] = earlier[Len(earlier)]]_vars

\* user 2 wrote "hello", the gateway failed and the handler returned; the
\* request of the next "hello" holds both messages and no assistant entry
C28_Witness ==
    \E t \in Slots :
        /\ tasks[t].pc = "chat_typing" /\ tasks[t].user = 2
        /\ tasks[t].agent = "default"
        /\ \A s \in Slots \ {t} : tasks[s].pc = "idle"
        /\ events = 2
        /\ tasks[t].messages = << Entry("system", AgentName("default")),
                                  Entry("user", "hello"), Entry("user", "hello") >>
        /\ user_data_store[2].conversations["default"]
               = << Entry("user", "hello"), Entry("user", "hello") >>

====
